---- MODULE Spec2Model ----
(***************************************************************************)
(* A model of gunship-rs' rendering core:                                  *)
(*   - gl-util: the device context's bind state, vertex buffers, vertex    *)
(*     arrays and the DrawBuilder (lib/gl-util/src/lib.rs);                *)
(*   - polygon: the GlRender registries and its draw() frame loop          *)
(*     (lib/polygon_rs/src/gl/mod.rs);                                     *)
(*   - the DebugDraw singleton and its command queue (src/debug_draw.rs);  *)
(*   - the hot-reload loop of the loader (lib/loader/src/loader.rs).       *)
(* Device calls are recorded in `calls`, the calls issued by the most      *)
(* recent operation, in issue order.                                       *)
(***************************************************************************)
EXTENDS Integers, Sequences, FiniteSets, TLC

VARIABLES
    ctx,            \* ContextInner: the context's bind state / fixed-function state
    status,         \* "running", or "panicked" after a fatal failure
    calls,          \* device calls issued by the most recent operation
    vertex_arrays,  \* gl-util client: the VertexArray objects alive, by name
    builder,        \* gl-util client: the DrawBuilder in scope (Option)
    chain,          \* number of builder configuration calls made so far
    draws,          \* number of DrawBuilder::draw() calls made by the client
    last_call,      \* gl-util client: the most recent call, <<method, arguments...>>
    vbo,            \* gl-util client: the VertexBuffer being filled
    ibo,            \* gl-util client: the IndexBuffer being filled
    buffer_binding, \* the device's buffer bound to each target, "null" for none
    materials,      \* GlRender: the registries, id -> object
    meshes,
    textures,
    mesh_instances,
    anchors,
    cameras,
    lights,
    programs,
    counters,       \* GlRender: the id counters, one field per registry
    passes,         \* the DrawBuilder::draw() calls of the most recent GlRender::draw()
    camera_used,    \* the camera the most recent GlRender::draw() rendered from (Option)
    ids_issued,     \* GlRender: the ids each register_* has returned, in order of return
    result,         \* GlRender: the build_material or get_* call just made and what it
                    \* returned (Option)
    debug_instance, \* debug_draw.rs: the static `instance`, an address, 0 for null
    debug_draws,    \* the DebugDraw objects alive, each by the address of its inner
    heap,           \* the DebugDrawInner boxes allocated: address -> command_buffer
    queued,         \* every command draw_command has queued so far and where, in order
    dispatched,     \* every command flush_commands has dispatched so far and whose
    libraries,      \* loader.rs: the dynamic libraries open in the process
    lib,            \* loader.rs main: the local _lib (Option)
    engine,         \* loader.rs main: the engine state
    engine_update_and_render, \* loader.rs main: the library the function pointer is of
    engine_close,   \* loader.rs main: the library the function pointer is of
    lib_counter     \* loader.rs main: the next value of `counter`

glVars == <<vertex_arrays, builder, chain, draws, last_call>>
registryVars == <<materials, meshes, textures, mesh_instances, anchors, cameras, lights,
                  programs, counters>>
debugVars == <<debug_instance, debug_draws, heap, queued, dispatched>>
loaderVars == <<libraries, lib, engine, engine_update_and_render, engine_close, lib_counter>>
processVars == <<debugVars, loaderVars>>
rendererVars == <<registryVars, passes, camera_used, ids_issued, result, processVars>>
bufferVars == <<vbo, ibo>>
vars == <<ctx, status, calls, glVars, rendererVars, bufferVars, buffer_binding>>

(* What an operation of the gl-util client, or of the renderer, leaves alone. *)
notClient == <<rendererVars, bufferVars, buffer_binding>>
notRenderer == <<glVars, bufferVars, processVars>>

-----------------------------------------------------------------------------
(* Bounds of the model. *)
MaxBuilderCalls == 3
MaxDraws == 2
MaxAnchors == 1
MaxMeshes == 1
MaxTextures == 1
MaxCameras == 2
MaxInstances == 2
MaxLights == 2
MaxScene == 7
MaxMaterials == 2
MaxPrograms == 3
MaxRegistered == 4
MaxArrays == 2
MaxDebugDraws == 3
MaxCommands == 3
MaxReloads == 4
MaxFrames == 4
(* The width of usize in the model. *)
UsizeBits == 16

-----------------------------------------------------------------------------
(* Option<T> *)
None == <<>>
Some(x) == <<x>>
IsSome(o) == Len(o) = 1
Unwrap(o) == o[1]

EmptyMap == [x \in {} |-> x]
(* An insert that keeps the value a key already has. *)
Insert_if_absent(map, key, value) ==
    [k \in DOMAIN map \cup {key} |-> IF k \in DOMAIN map THEN map[k] ELSE value]

Insert(map, key, value) ==
    [k \in DOMAIN map \cup {key} |-> IF k = key THEN value ELSE map[k]]

(* Every order in which an unordered map may be iterated. *)
RECURSIVE Orderings(_)
Orderings(S) ==
    IF S = {} THEN {<<>>}
    ELSE UNION {{<<x>> \o p : p \in Orderings(S \ {x})} : x \in S}

RECURSIVE Ascending(_)
Ascending(S) ==
    IF S = {} THEN <<>>
    ELSE LET m == CHOOSE x \in S : \A y \in S : x <= y
         IN <<m>> \o Ascending(S \ {m})

-----------------------------------------------------------------------------
(* The device enumerations re-exported by gl-util and their defaults. *)
PolygonModes == {"Fill", "Line"}
Faces == {"Back", "Front"}
Comparisons == {"Less", "LessThanOrEqual"}
WindingOrders == {"CounterClockwise", "Clockwise"}
DefaultPolygonMode == "Fill"
DefaultWindingOrder == "CounterClockwise"
DefaultBlend == <<"One", "Zero">>
AdditiveBlend == <<"One", "One">>

(* A device call. *)
Call(op, arg) == [op |-> op, arg |-> arg]

(* The state of a freshly created context. *)
ContextInit ==
    [ id                |-> 1,
      polygon_mode      |-> DefaultPolygonMode,
      program           |-> None,
      server_cull       |-> FALSE,
      cull_mode         |-> "Back",
      winding_order     |-> DefaultWindingOrder,
      server_depth_test |-> FALSE,
      depth_test        |-> "Less",
      blend             |-> DefaultBlend,
      vertex_array      |-> 0 ]

(* The result of an operation on the context: the new bind state, the       *)
(* device calls it issued, and whether it returned (FALSE: it panicked).    *)
Outcome(c, cs, ok) == [ctx |-> c, calls |-> cs, ok |-> ok]

(* Runs `second`, an operator on a context, after the outcome `first`. *)
Then(first, second(_)) ==
    IF ~first.ok THEN first
    ELSE LET r == second(first.ctx)
         IN Outcome(r.ctx, first.calls \o r.calls, r.ok)

-----------------------------------------------------------------------------
(* Uniform names and shader programs. *)
BuiltInUniforms ==
    << "model_transform", "normal_transform", "view_transform",
       "view_normal_transform", "model_view_transform", "projection_transform",
       "model_view_projection", "global_ambient", "camera_position",
       "light_position", "light_position_view", "light_strength", "light_color",
       "light_type", "light_radius", "light_direction", "light_direction_view" >>
PropertyUniforms ==
    << "surface_color", "surface_shininess", "surface_offset", "surface_diffuse" >>
UniformNames == BuiltInUniforms \o PropertyUniforms
AllUniforms == {UniformNames[i] : i \in 1..Len(UniformNames)}
UniformLocations ==
    [name \in AllUniforms |-> CHOOSE i \in 1..Len(UniformNames) : UniformNames[i] = name]
UniformLocation(name) == UniformLocations[name]
UniformTable(names) == [n \in names |-> UniformLocation(n)]

VertexInputs == <<"vertex_position", "vertex_normal", "vertex_uv0">>
AttributeLocation(name) == CHOOSE i \in 1..Len(VertexInputs) : VertexInputs[i] = name
AttribTable(names) == [n \in names |-> AttributeLocation(n)]

Program(id, context, uniformNames, attribNames) ==
    [ id       |-> id,
      context  |-> context,
      uniforms |-> UniformTable(uniformNames),
      attribs  |-> AttribTable(attribNames) ]

get_uniform_location(program, name) ==
    IF name \in DOMAIN program.uniforms THEN Some(program.uniforms[name]) ELSE None

get_attrib(program, name) ==
    IF name \in DOMAIN program.attribs THEN Some(program.attribs[name]) ELSE None

(* UniformValue *)
UniformValue(kind, val) == [kind |-> kind, val |-> val]
GlMatrix(len, data) == UniformValue("Matrix", [len |-> len, data |-> data])
GlTexture(handle) == UniformValue("Texture", handle)

-----------------------------------------------------------------------------
(* VertexBuffer, IndexBuffer, VertexArray *)
AttribLayout(elements, stride, offset) ==
    [elements |-> elements, stride |-> stride, offset |-> offset]

VertexBuffer_new == [len |-> 0, element_len |-> 0, attribs |-> EmptyMap]

(* The device's buffer targets, and what is bound to them after the device  *)
(* calls `cs`.                                                              *)
NoBuffers == [target \in {"Array", "ElementArray"} |-> "null"]
RECURSIVE Bound(_, _)
Bound(binding, cs) ==
    IF cs = <<>> THEN binding
    ELSE Bound(IF Head(cs).op = "bind_buffer"
               THEN [binding EXCEPT ![Head(cs).arg[1]] = Head(cs).arg[2]]
               ELSE binding,
               Tail(cs))

(* An upload that leaves the buffer bound to its target. *)
Upload_left_bound(target, buffer_name, byte_count) ==
    << Call("bind_buffer", <<target, buffer_name>>),
       Call("buffer_data", <<target, byte_count>>) >>

(* The device calls of an upload of `byte_count` bytes to a buffer. *)
Upload(target, buffer_name, byte_count) ==
    << Call("bind_buffer", <<target, buffer_name>>),
       Call("buffer_data", <<target, byte_count>>),
       Call("bind_buffer", <<target, "null">>) >>

set_data_f32(vb, dataLen) == [vb EXCEPT !.len = dataLen]
set_data_f32_calls(buffer_name, dataLen) == Upload("Array", buffer_name, dataLen * 4)

(* usize arithmetic. A subtraction or an addition that overflows panics in  *)
(* a build with overflow checks and wraps in a build without; a division by *)
(* zero panics in both. None stands for the panic.                          *)
UsizeModulus == 2 ^ UsizeBits
Builds == {"overflow-checks", "wrapping"}
usize_sub(build, a, b) ==
    IF a >= b THEN Some(a - b)
    ELSE IF build = "wrapping" THEN Some(a - b + UsizeModulus)
    ELSE None
usize_div(a, b) == IF b = 0 THEN None ELSE Some(a \div b)
usize_add(build, a, b) ==
    IF a + b < UsizeModulus THEN Some(a + b)
    ELSE IF build = "wrapping" THEN Some(a + b - UsizeModulus)
    ELSE None

(* (self.len - layout.offset) / layout.elements + layout.stride *)
element_len(build, len, layout) ==
    LET difference == usize_sub(build, len, layout.offset)
    IN IF ~IsSome(difference) THEN None
       ELSE LET quotient == usize_div(Unwrap(difference), layout.elements)
            IN IF ~IsSome(quotient) THEN None
               ELSE usize_add(build, Unwrap(quotient), layout.stride)

(* set_attrib_f32 in the build `build`: the buffer after it, and whether it *)
(* returned.                                                                *)
set_attrib_f32_in(build, vb, attrib, layout) ==
    LET count == element_len(build, vb.len, layout)
    IN IF ~IsSome(count) THEN [buffer |-> vb, ok |-> FALSE]
       ELSE [ buffer |-> [vb EXCEPT !.element_len = Unwrap(count),
                                    !.attribs = Insert(@, attrib, layout)],
              ok |-> TRUE ]

(* set_attrib_f32 where it returns. *)
set_attrib_f32(vb, attrib, layout) ==
    set_attrib_f32_in("overflow-checks", vb, attrib, layout).buffer

IndexBuffer_new == [len |-> 0]
set_data_u32(ib, dataLen) == [ib EXCEPT !.len = dataLen]
set_data_u32_calls(buffer_name, dataLen) == Upload("ElementArray", buffer_name, dataLen * 4)

VertexArray_new(name, vertex_buffer) ==
    [vertex_array_name |-> name, vertex_buffer |-> vertex_buffer, index_buffer |-> None]

VertexArray_with_index_buffer(name, vertex_buffer, index_buffer) ==
    [ vertex_array_name |-> name,
      vertex_buffer     |-> vertex_buffer,
      index_buffer      |-> Some(index_buffer) ]

-----------------------------------------------------------------------------

(* The device names of the buffers a vertex array was built from: the names *)
(* gen_buffers gave them, told apart by the vertex array they belong to.    *)
vertex_buffer_name(vertex_array_name) ==
    <<"vertex_1", "vertex_2", "vertex_3", "vertex_4">>[vertex_array_name]
index_buffer_name(vertex_array_name) ==
    <<"index_1", "index_2", "index_3", "index_4">>[vertex_array_name]

(* Drop for VertexBuffer, Drop for IndexBuffer *)
Buffer_drop(buffer_name) == <<Call("delete_buffers", buffer_name)>>

(* ContextInner::unbind_vertex_array: the array is no longer the one bound. *)
unbind_vertex_array(c, vertex_array_name) ==
    IF c.vertex_array = vertex_array_name THEN [c EXCEPT !.vertex_array = 0] ELSE c


(* VertexArray::new / VertexArray::with_index_buffer: the array is          *)
(* generated and bound, and the buffers are bound to it.                    *)
VertexArray_bind(c, vertex_array) ==
    Outcome([c EXCEPT !.vertex_array = vertex_array.vertex_array_name],
            << Call("gen_vertex_arrays", vertex_array.vertex_array_name),
               Call("bind_vertex_array", vertex_array.vertex_array_name),
               Call("bind_buffer",
                    <<"Array", vertex_buffer_name(vertex_array.vertex_array_name)>>) >>
              \o IF IsSome(vertex_array.index_buffer)
                 THEN <<Call("bind_buffer",
                             <<"ElementArray",
                               index_buffer_name(vertex_array.vertex_array_name)>>)>>
                 ELSE <<>>,
            TRUE)

(* A drop that deletes the array and leaves the bind state as it is. *)
VertexArray_drop_bound(c, vertex_array) ==
    Outcome(c,
            <<Call("delete_vertex_arrays", vertex_array.vertex_array_name)>>
              \o Buffer_drop(vertex_buffer_name(vertex_array.vertex_array_name))
              \o IF IsSome(vertex_array.index_buffer)
                 THEN Buffer_drop(index_buffer_name(vertex_array.vertex_array_name))
                 ELSE <<>>,
            TRUE)

(* Drop for VertexArray, followed by the drop of its fields in declaration  *)
(* order: the vertex buffer, then the index buffer.                          *)
VertexArray_drop(c, vertex_array) ==
    Outcome(unbind_vertex_array(c, vertex_array.vertex_array_name),
            <<Call("delete_vertex_arrays", vertex_array.vertex_array_name)>>
              \o Buffer_drop(vertex_buffer_name(vertex_array.vertex_array_name))
              \o IF IsSome(vertex_array.index_buffer)
                 THEN Buffer_drop(index_buffer_name(vertex_array.vertex_array_name))
                 ELSE <<>>,
            TRUE)

(* The drop of a sequence of vertex arrays, one after the other. *)
RECURSIVE VertexArrays_drop(_, _)
VertexArrays_drop(c, arrays) ==
    IF arrays = <<>> THEN Outcome(c, <<>>, TRUE)
    ELSE Then(VertexArray_drop(c, Head(arrays)),
              LAMBDA after : VertexArrays_drop(after, Tail(arrays)))

(* DrawBuilder: the configuration methods. *)
DrawBuilder_new(context, vertex_array, draw_mode) ==
    [ context       |-> context,
      vertex_array  |-> vertex_array,
      draw_mode     |-> draw_mode,
      polygon_mode  |-> None,
      program       |-> None,
      cull          |-> None,
      depth_test    |-> None,
      winding_order |-> DefaultWindingOrder,
      blend         |-> DefaultBlend,
      uniforms      |-> EmptyMap ]

(* The result of a configuration method: the builder, and whether it returned. *)
Built(b, ok) == [builder |-> b, ok |-> ok]

polygon_mode(b, mode) == Built([b EXCEPT !.polygon_mode = Some(mode)], TRUE)

program(b, p) ==
    IF b.context # p.context THEN Built(b, FALSE)
    ELSE Built([b EXCEPT !.program = Some(p)], TRUE)

(* A cull() that also sets the winding order back to the default. *)
cull_default_winding(b, face) ==
    Built([b EXCEPT !.cull = Some(face), !.winding_order = DefaultWindingOrder], TRUE)

cull(b, face) == Built([b EXCEPT !.cull = Some(face)], TRUE)

depth_test(b, comparison) == Built([b EXCEPT !.depth_test = Some(comparison)], TRUE)

winding(b, winding_order) == Built([b EXCEPT !.winding_order = winding_order], TRUE)

blend(b, source_factor, dest_factor) ==
    Built([b EXCEPT !.blend = <<source_factor, dest_factor>>], TRUE)

(* A uniform() that fails on a name the program does not have. *)
uniform_strict(b, name, value) ==
    IF ~IsSome(b.program) THEN Built(b, FALSE)
    ELSE LET location == get_uniform_location(Unwrap(b.program), name)
         IN IF ~IsSome(location) THEN Built(b, FALSE)
            ELSE Built([b EXCEPT !.uniforms = Insert(@, Unwrap(location), value)], TRUE)

uniform(b, name, value) ==
    IF ~IsSome(b.program) THEN Built(b, FALSE)
    ELSE LET location == get_uniform_location(Unwrap(b.program), name)
         IN IF ~IsSome(location) THEN Built(b, TRUE)
            ELSE Built([b EXCEPT !.uniforms = Insert(@, Unwrap(location), value)], TRUE)

(* The device calls that enable a vertex attribute and point it at `layout`. *)
PointAttrib(b, c, location, layout) ==
    Outcome([c EXCEPT !.vertex_array = b.vertex_array.vertex_array_name],
            << Call("bind_vertex_array", b.vertex_array.vertex_array_name),
               Call("enable_vertex_attrib_array", location),
               Call("vertex_attrib_pointer",
                    [ location |-> location,
                      elements |-> layout.elements,
                      stride   |-> layout.stride * 4,
                      offset   |-> layout.offset * 4 ]) >>,
            TRUE)

(* A map_attrib_location() that ignores an attribute the buffer does not have. *)
map_attrib_location_silent(b, c, buffer_attrib_name, attrib_location) ==
    LET attribs == b.vertex_array.vertex_buffer.attribs
    IN IF buffer_attrib_name \notin DOMAIN attribs THEN Outcome(c, <<>>, TRUE)
       ELSE PointAttrib(b, c, attrib_location, attribs[buffer_attrib_name])

map_attrib_location(b, c, buffer_attrib_name, attrib_location) ==
    LET attribs == b.vertex_array.vertex_buffer.attribs
    IN IF buffer_attrib_name \notin DOMAIN attribs THEN Outcome(c, <<>>, FALSE)
       ELSE PointAttrib(b, c, attrib_location, attribs[buffer_attrib_name])

(* A map_attrib_name() that skips a missing buffer attribute before it asks *)
(* for the program.                                                        *)
map_attrib_name_skip_first(b, c, buffer_attrib_name, program_attrib_name) ==
    LET attribs == b.vertex_array.vertex_buffer.attribs
    IN IF buffer_attrib_name \notin DOMAIN attribs THEN Outcome(c, <<>>, TRUE)
       ELSE IF ~IsSome(b.program) THEN Outcome(c, <<>>, FALSE)
       ELSE LET attrib == get_attrib(Unwrap(b.program), program_attrib_name)
            IN IF ~IsSome(attrib) THEN Outcome(c, <<>>, TRUE)
               ELSE PointAttrib(b, c, Unwrap(attrib), attribs[buffer_attrib_name])

(* A map_attrib_name() that binds the vertex array before it looks the      *)
(* names up.                                                               *)
map_attrib_name_bind_first(b, c, buffer_attrib_name, program_attrib_name) ==
    IF ~IsSome(b.program) THEN Outcome(c, <<>>, FALSE)
    ELSE LET attrib == get_attrib(Unwrap(b.program), program_attrib_name)
             attribs == b.vertex_array.vertex_buffer.attribs
             bound == [c EXCEPT !.vertex_array = b.vertex_array.vertex_array_name]
             bind == <<Call("bind_vertex_array", b.vertex_array.vertex_array_name)>>
         IN IF ~IsSome(attrib) THEN Outcome(bound, bind, TRUE)
            ELSE IF buffer_attrib_name \notin DOMAIN attribs THEN Outcome(bound, bind, TRUE)
            ELSE PointAttrib(b, c, Unwrap(attrib), attribs[buffer_attrib_name])

map_attrib_name(b, c, buffer_attrib_name, program_attrib_name) ==
    IF ~IsSome(b.program) THEN Outcome(c, <<>>, FALSE)
    ELSE LET attrib == get_attrib(Unwrap(b.program), program_attrib_name)
             attribs == b.vertex_array.vertex_buffer.attribs
         IN IF ~IsSome(attrib) THEN Outcome(c, <<>>, TRUE)
            ELSE IF buffer_attrib_name \notin DOMAIN attribs THEN Outcome(c, <<>>, TRUE)
            ELSE PointAttrib(b, c, Unwrap(attrib), attribs[buffer_attrib_name])

-----------------------------------------------------------------------------
(* DrawBuilder::draw() and DrawBuilder::apply(). *)
draw_polygon_mode(b, c) ==
    LET mode == IF IsSome(b.polygon_mode) THEN Unwrap(b.polygon_mode)
                ELSE DefaultPolygonMode
    IN Outcome([c EXCEPT !.polygon_mode = mode], <<Call("polygon_mode", mode)>>, TRUE)

draw_use_program(b, c) ==
    LET inner == IF IsSome(b.program) THEN Some(Unwrap(b.program).id) ELSE None
    IN Outcome([c EXCEPT !.program = inner], <<Call("use_program", inner)>>, TRUE)

(* A draw() that leaves face culling as it finds it when the builder has    *)
(* none.                                                                    *)
draw_cull_when_set(b, c) ==
    IF IsSome(b.cull)
    THEN Outcome([c EXCEPT !.server_cull = TRUE,
                           !.cull_mode = Unwrap(b.cull),
                           !.winding_order = b.winding_order],
                 << Call("enable_server_cull", TRUE),
                    Call("cull_mode", Unwrap(b.cull)),
                    Call("winding_order", b.winding_order) >>,
                 TRUE)
    ELSE Outcome(c, <<>>, TRUE)

draw_cull(b, c) ==
    IF IsSome(b.cull)
    THEN Outcome([c EXCEPT !.server_cull = TRUE,
                           !.cull_mode = Unwrap(b.cull),
                           !.winding_order = b.winding_order],
                 << Call("enable_server_cull", TRUE),
                    Call("cull_mode", Unwrap(b.cull)),
                    Call("winding_order", b.winding_order) >>,
                 TRUE)
    ELSE Outcome([c EXCEPT !.server_cull = FALSE],
                 <<Call("enable_server_cull", FALSE)>>, TRUE)

draw_depth_test(b, c) ==
    IF IsSome(b.depth_test)
    THEN Outcome([c EXCEPT !.server_depth_test = TRUE,
                           !.depth_test = Unwrap(b.depth_test)],
                 << Call("enable_server_depth_test", TRUE),
                    Call("depth_test", Unwrap(b.depth_test)) >>,
                 TRUE)
    ELSE Outcome([c EXCEPT !.server_depth_test = FALSE],
                 <<Call("enable_server_depth_test", FALSE)>>, TRUE)

(* A draw() that leaves the blend factors alone when the builder has the    *)
(* default ones.                                                            *)
draw_blend_when_set(b, c) ==
    IF b.blend = DefaultBlend THEN Outcome(c, <<>>, TRUE)
    ELSE Outcome([c EXCEPT !.blend = b.blend], <<Call("blend", b.blend)>>, TRUE)

draw_blend(b, c) ==
    Outcome([c EXCEPT !.blend = b.blend], <<Call("blend", b.blend)>>, TRUE)

(* The device call apply() makes for each scalar and vector uniform. *)
ScalarUniformCall ==
    [ kind \in {"f32", "f32x2", "f32x3", "f32x4", "i32", "u32"} |->
        CASE kind = "f32" -> "uniform_f32x1"
          [] kind = "f32x2" -> "uniform_f32x2"
          [] kind = "f32x3" -> "uniform_f32x3"
          [] kind = "f32x4" -> "uniform_f32x4"
          [] kind = "i32" -> "uniform_i32x1"
          [] kind = "u32" -> "uniform_u32x1" ]

(* An apply() that passes over a matrix of a length it does not support. *)
apply_skip_unsupported(value, location, active_texture) ==
    CASE value.kind = "Matrix" ->
            IF value.val.len = 16
            THEN [ calls |-> <<Call("uniform_matrix_f32x4v", <<location, value.val.data>>)>>,
                   active_texture |-> active_texture, ok |-> TRUE ]
            ELSE IF value.val.len = 9
            THEN [ calls |-> <<Call("uniform_matrix_f32x3v", <<location, value.val.data>>)>>,
                   active_texture |-> active_texture, ok |-> TRUE ]
            ELSE [calls |-> <<>>, active_texture |-> active_texture, ok |-> TRUE]
      [] value.kind = "Texture" ->
            [ calls |-> << Call("set_active_texture", active_texture),
                           Call("bind_texture", value.val),
                           Call("uniform_i32x1", <<location, active_texture>>) >>,
              active_texture |-> active_texture + 1, ok |-> TRUE ]
      [] OTHER ->
            [ calls |-> <<Call(ScalarUniformCall[value.kind], <<location, value.val>>)>>,
              active_texture |-> active_texture, ok |-> TRUE ]

(* An apply() that binds every texture to the unit it was handed. *)
apply_same_unit(value, location, active_texture) ==
    CASE value.kind = "Matrix" ->
            IF value.val.len = 16
            THEN [ calls |-> <<Call("uniform_matrix_f32x4v", <<location, value.val.data>>)>>,
                   active_texture |-> active_texture, ok |-> TRUE ]
            ELSE IF value.val.len = 9
            THEN [ calls |-> <<Call("uniform_matrix_f32x3v", <<location, value.val.data>>)>>,
                   active_texture |-> active_texture, ok |-> TRUE ]
            ELSE [calls |-> <<>>, active_texture |-> active_texture, ok |-> FALSE]
      [] value.kind = "Texture" ->
            [ calls |-> << Call("set_active_texture", active_texture),
                           Call("bind_texture", value.val),
                           Call("uniform_i32x1", <<location, active_texture>>) >>,
              active_texture |-> active_texture, ok |-> TRUE ]
      [] OTHER ->
            [ calls |-> <<Call(ScalarUniformCall[value.kind], <<location, value.val>>)>>,
              active_texture |-> active_texture, ok |-> TRUE ]

(* apply(): the device calls for one staged uniform, the texture unit counter *)
(* after it, and whether it returned.                                         *)
apply(value, location, active_texture) ==
    CASE value.kind = "Matrix" ->
            IF value.val.len = 16
            THEN [ calls |-> <<Call("uniform_matrix_f32x4v", <<location, value.val.data>>)>>,
                   active_texture |-> active_texture, ok |-> TRUE ]
            ELSE IF value.val.len = 9
            THEN [ calls |-> <<Call("uniform_matrix_f32x3v", <<location, value.val.data>>)>>,
                   active_texture |-> active_texture, ok |-> TRUE ]
            ELSE [calls |-> <<>>, active_texture |-> active_texture, ok |-> FALSE]
      [] value.kind = "Texture" ->
            [ calls |-> << Call("set_active_texture", active_texture),
                           Call("bind_texture", value.val),
                           Call("uniform_i32x1", <<location, active_texture>>) >>,
              active_texture |-> active_texture + 1, ok |-> TRUE ]
      [] OTHER ->
            [ calls |-> <<Call(ScalarUniformCall[value.kind], <<location, value.val>>)>>,
              active_texture |-> active_texture, ok |-> TRUE ]

(* The loop over the staged uniforms: `applied` is the outcome of apply()    *)
(* for the first of `order`.                                                 *)
RECURSIVE apply_uniforms(_, _, _)
apply_rest(applied, rest) == [calls |-> applied.calls \o rest.calls, ok |-> rest.ok]
apply_next(applied, uniforms, order) ==
    IF ~applied.ok THEN [calls |-> applied.calls, ok |-> FALSE]
    ELSE apply_rest(applied, apply_uniforms(uniforms, Tail(order), applied.active_texture))
apply_uniforms(uniforms, order, active_texture) ==
    IF order = <<>> THEN [calls |-> <<>>, ok |-> TRUE]
    ELSE apply_next(apply(uniforms[Head(order)], Head(order), active_texture),
                    uniforms, order)

(* `order` is the order in which the uniform map is iterated. *)
uniforms_applied(c, r) == Outcome(c, r.calls, r.ok)
draw_uniforms(b, c, order) == uniforms_applied(c, apply_uniforms(b.uniforms, order, 0))

(* A draw call that is never indexed. *)
draw_call_arrays(b, c) ==
    LET bound == [c EXCEPT !.vertex_array = b.vertex_array.vertex_array_name]
    IN Outcome(bound,
               << Call("bind_vertex_array", b.vertex_array.vertex_array_name),
                  Call("draw_arrays",
                       [ mode  |-> b.draw_mode,
                         count |-> b.vertex_array.vertex_buffer.element_len,
                         state |-> bound ]) >>,
               TRUE)

(* The device draw call, with the fixed-function state it is issued under. *)
draw_call(b, c) ==
    LET va == b.vertex_array
        bound == [c EXCEPT !.vertex_array = va.vertex_array_name]
        bind == Call("bind_vertex_array", va.vertex_array_name)
    IN IF IsSome(va.index_buffer)
       THEN Outcome(bound,
                    << bind,
                       Call("draw_elements",
                            [ mode  |-> b.draw_mode,
                              count |-> Unwrap(va.index_buffer).len,
                              state |-> bound ]) >>,
                    TRUE)
       ELSE Outcome(bound,
                    << bind,
                       Call("draw_arrays",
                            [ mode  |-> b.draw_mode,
                              count |-> va.vertex_buffer.element_len,
                              state |-> bound ]) >>,
                    TRUE)

(* A draw() that issues the draw call before it applies the uniforms. *)
draw_then_uniforms(b, c, order) ==
    Then(Then(Then(Then(Then(Then(
        draw_polygon_mode(b, c),
        LAMBDA x : draw_use_program(b, x)),
        LAMBDA x : draw_cull(b, x)),
        LAMBDA x : draw_depth_test(b, x)),
        LAMBDA x : draw_blend(b, x)),
        LAMBDA x : draw_call(b, x)),
        LAMBDA x : draw_uniforms(b, x, order))

draw(b, c, order) ==
    Then(Then(Then(Then(Then(Then(
        draw_polygon_mode(b, c),
        LAMBDA x : draw_use_program(b, x)),
        LAMBDA x : draw_cull(b, x)),
        LAMBDA x : draw_depth_test(b, x)),
        LAMBDA x : draw_blend(b, x)),
        LAMBDA x : draw_uniforms(b, x, order)),
        LAMBDA x : draw_call(b, x))

IsDrawCall(call) == call.op \in {"draw_elements", "draw_arrays"}
DrawCalls(cs) == SelectSeq(cs, IsDrawCall)

-----------------------------------------------------------------------------
(* The renderer's id counters: initial() and next(). *)
CounterNames ==
    { "material_counter", "mesh_counter", "texture_counter", "mesh_instance_counter",
      "anchor_counter", "camera_counter", "light_counter", "shader_counter" }
CountersInit == [n \in CounterNames |-> 0]
NextId(counter) == counters[counter] + 1
IssuedInit == [n \in CounterNames |-> <<>>]

-----------------------------------------------------------------------------
(* A client of gl-util on one context (as examples/wireframe.rs): it builds  *)
(* vertex arrays, configures draw builders and draws.                        *)
PositionBuffer ==
    set_attrib_f32(set_data_f32(VertexBuffer_new, 12), "position", AttribLayout(4, 0, 0))
(* A buffer of interleaved positions and normals, as register_mesh lays     *)
(* one out.                                                                 *)
InterleavedBuffer ==
    set_attrib_f32(
        set_attrib_f32(set_data_f32(VertexBuffer_new, 18),
                       "position", AttribLayout(3, 6, 0)),
        "normal", AttribLayout(3, 6, 3))
(* The vertex arrays the client created before it draws: one with an index  *)
(* buffer and one without, the second created last and so left bound.        *)
ClientVertexArrays ==
    [ name \in {1, 2} |->
        IF name = 1
        THEN VertexArray_with_index_buffer(1, InterleavedBuffer,
                                           set_data_u32(IndexBuffer_new, 6))
        ELSE VertexArray_new(2, PositionBuffer) ]
(* The buffers left bound by the creation of those vertex arrays: the       *)
(* vertex buffer of the second, the index buffer of the first.              *)
ClientBuffers == [target \in {"Array", "ElementArray"} |->
                    IF target = "Array" THEN "vertex_2" ELSE "index_1"]
ClientProgram == Program(1, 1, {"light_type", "surface_diffuse", "model_transform"},
                         {"vertex_position"})
ForeignProgram == Program(2, 2, {"light_type"}, {"vertex_position"})
ProgramInputs == {ClientProgram, ForeignProgram}
UniformNameInputs == {"light_type", "surface_diffuse", "light_radius"}
UniformValueInputs ==
    {GlTexture(7), GlTexture(8), GlMatrix(16, "m4"), GlMatrix(9, "m3"), GlMatrix(4, "m2")}
PolygonModeInputs == PolygonModes \ {DefaultPolygonMode}
BlendInputs == {AdditiveBlend}
AttribLocationInputs == {0}
BufferAttribInputs == {"position", "normal"}
ProgramAttribInputs == {"vertex_position", "vertex_normal"}

(* The rest of the process before main has run and with no DebugDraw made. *)
ProcessInit ==
    /\ debug_instance = 0
    /\ debug_draws = {}
    /\ heap = EmptyMap
    /\ queued = <<>>
    /\ dispatched = <<>>
    /\ libraries = {}
    /\ lib = None
    /\ engine = None
    /\ engine_update_and_render = None
    /\ engine_close = None
    /\ lib_counter = 0

Running == status = "running"
HasBuilder == Running /\ IsSome(builder)
CanConfigure == HasBuilder /\ chain < MaxBuilderCalls /\ draws < MaxDraws

(* The effect of a configuration method that issues no device call. *)
Configure(r) ==
    /\ builder' = Some(r.builder)
    /\ status' = IF r.ok THEN "running" ELSE "panicked"
    /\ chain' = chain + 1
    /\ calls' = <<>>
    /\ UNCHANGED <<ctx, vertex_arrays, draws>>
    /\ UNCHANGED notClient

(* The effect of an operation that acts on the context. *)
Act(r) ==
    /\ ctx' = r.ctx
    /\ calls' = r.calls
    /\ status' = IF r.ok THEN "running" ELSE "panicked"


(* The vertex arrays not dropped yet; a dropped one leaves its name behind. *)
Dropped(vertex_array_name) == [vertex_array_name |-> vertex_array_name]
AliveArrays == {name \in DOMAIN vertex_arrays : "vertex_buffer" \in DOMAIN vertex_arrays[name]}

NewDrawBuilder ==
    /\ Running
    /\ draws < MaxDraws
    /\ \E name \in AliveArrays :
         /\ builder' = Some(DrawBuilder_new(ctx.id, vertex_arrays[name], "Triangles"))
         /\ last_call' = <<"new", name>>
    /\ calls' = <<>>
    /\ UNCHANGED <<ctx, status, vertex_arrays, chain, draws>>
    /\ UNCHANGED notClient

SetPolygonMode ==
    /\ CanConfigure
    /\ \E mode \in PolygonModeInputs :
         /\ Configure(polygon_mode(Unwrap(builder), mode))
         /\ last_call' = <<"polygon_mode", mode>>

SetProgram ==
    /\ CanConfigure
    /\ \E p \in ProgramInputs :
         /\ Configure(program(Unwrap(builder), p))
         /\ last_call' = <<"program", p>>

SetCull ==
    /\ CanConfigure
    /\ \E face \in Faces :
         /\ Configure(cull(Unwrap(builder), face))
         /\ last_call' = <<"cull", face>>

SetDepthTest ==
    /\ CanConfigure
    /\ \E comparison \in Comparisons :
         /\ Configure(depth_test(Unwrap(builder), comparison))
         /\ last_call' = <<"depth_test", comparison>>

SetWinding ==
    /\ CanConfigure
    /\ \E w \in WindingOrders :
         /\ Configure(winding(Unwrap(builder), w))
         /\ last_call' = <<"winding", w>>

SetBlend ==
    /\ CanConfigure
    /\ \E f \in BlendInputs :
         /\ Configure(blend(Unwrap(builder), f[1], f[2]))
         /\ last_call' = <<"blend", f[1], f[2]>>

SetUniform ==
    /\ CanConfigure
    /\ \E name \in UniformNameInputs, value \in UniformValueInputs :
         /\ Configure(uniform(Unwrap(builder), name, value))
         /\ last_call' = <<"uniform", name, value>>

MapAttribLocation ==
    /\ CanConfigure
    /\ \E name \in BufferAttribInputs, location \in AttribLocationInputs :
         /\ Act(map_attrib_location(Unwrap(builder), ctx, name, location))
         /\ last_call' = <<"map_attrib_location", name, location>>
    /\ chain' = chain + 1
    /\ UNCHANGED <<vertex_arrays, builder, draws>>
    /\ UNCHANGED notClient

MapAttribName ==
    /\ CanConfigure
    /\ \E name \in BufferAttribInputs, input \in ProgramAttribInputs :
         /\ Act(map_attrib_name(Unwrap(builder), ctx, name, input))
         /\ last_call' = <<"map_attrib_name", name, input>>
    /\ chain' = chain + 1
    /\ UNCHANGED <<vertex_arrays, builder, draws>>
    /\ UNCHANGED notClient

Draw ==
    /\ HasBuilder
    /\ draws < MaxDraws
    /\ \E order \in Orderings(DOMAIN Unwrap(builder).uniforms) :
         /\ Act(draw(Unwrap(builder), ctx, order))
         /\ last_call' = <<"draw">>
    /\ draws' = draws + 1
    /\ UNCHANGED <<vertex_arrays, builder, chain>>
    /\ UNCHANGED notClient

InitBuilder ==
    /\ ctx = [ContextInit EXCEPT !.vertex_array = 2]
    /\ status = "running"
    /\ calls = <<>>
    /\ vertex_arrays = ClientVertexArrays
    /\ builder = None
    /\ chain = 0
    /\ draws = 0
    /\ last_call = <<>>
    /\ vbo = VertexBuffer_new
    /\ ibo = IndexBuffer_new
    /\ buffer_binding = ClientBuffers
    /\ materials = EmptyMap /\ meshes = EmptyMap /\ textures = EmptyMap
    /\ mesh_instances = EmptyMap /\ anchors = EmptyMap /\ cameras = EmptyMap
    /\ lights = EmptyMap /\ programs = EmptyMap
    /\ counters = CountersInit
    /\ passes = <<>>
    /\ camera_used = None
    /\ ids_issued = IssuedInit
    /\ result = None
    /\ ProcessInit

NextBuilder ==
    \/ NewDrawBuilder
    \/ SetPolygonMode
    \/ SetProgram
    \/ SetCull
    \/ SetDepthTest
    \/ SetWinding
    \/ SetBlend
    \/ SetUniform
    \/ MapAttribLocation
    \/ MapAttribName
    \/ Draw

SpecBuilder == InitBuilder /\ [][NextBuilder]_vars

(* A client with a second context: a vertex array created on that one, with *)
(* a name of that context, is given to a builder of the first.              *)
ForeignArrayNames == {9}
ForeignArrayName == CHOOSE name \in ForeignArrayNames : TRUE
ForeignVertexArray == VertexArray_new(ForeignArrayName, PositionBuffer)

NewForeignDrawBuilder ==
    /\ Running
    /\ draws < MaxDraws
    /\ builder' = Some(DrawBuilder_new(ctx.id, ForeignVertexArray, "Triangles"))
    /\ last_call' = <<"new", ForeignArrayName>>
    /\ calls' = <<>>
    /\ UNCHANGED <<ctx, status, vertex_arrays, chain, draws>>
    /\ UNCHANGED notClient

NextContexts ==
    \/ NewForeignDrawBuilder
    \/ NewDrawBuilder
    \/ SetProgram
    \/ SetCull
    \/ SetUniform
    \/ MapAttribLocation
    \/ MapAttribName
    \/ Draw

SpecContexts == InitBuilder /\ [][NextContexts]_vars

-----------------------------------------------------------------------------
(* A client of gl-util that fills a vertex buffer and an index buffer, on a *)
(* new context or on one where vertex arrays were created before.           *)
DataLenInputs == {0, 7, 12}
LayoutInputs ==
    { AttribLayout(4, 0, 0), AttribLayout(3, 6, 0), AttribLayout(3, 6, 3),
      AttribLayout(1, 2, 1), AttribLayout(0, 0, 0) }
AttribNameInputs == {"position", "normal"}

SetDataF32 ==
    /\ Running
    /\ \E dataLen \in DataLenInputs :
         /\ vbo' = set_data_f32(vbo, dataLen)
         /\ calls' = set_data_f32_calls("vertex", dataLen)
         /\ last_call' = <<"set_data_f32", dataLen>>
    /\ buffer_binding' = Bound(buffer_binding, calls')
    /\ UNCHANGED <<ctx, status, vertex_arrays, builder, chain, draws, ibo>>
    /\ UNCHANGED rendererVars

SetAttribF32 ==
    /\ Running
    /\ \E attrib \in AttribNameInputs, layout \in LayoutInputs, build \in Builds :
         LET r == set_attrib_f32_in(build, vbo, attrib, layout)
         IN /\ vbo' = r.buffer
            /\ status' = IF r.ok THEN "running" ELSE "panicked"
            /\ last_call' = <<"set_attrib_f32", attrib, layout, build>>
    /\ calls' = <<>>
    /\ UNCHANGED <<ctx, vertex_arrays, builder, chain, draws, ibo, buffer_binding>>
    /\ UNCHANGED rendererVars

SetDataU32 ==
    /\ Running
    /\ \E dataLen \in DataLenInputs :
         /\ ibo' = set_data_u32(ibo, dataLen)
         /\ calls' = set_data_u32_calls("index", dataLen)
         /\ last_call' = <<"set_data_u32", dataLen>>
    /\ buffer_binding' = Bound(buffer_binding, calls')
    /\ UNCHANGED <<ctx, status, vertex_arrays, builder, chain, draws, vbo>>
    /\ UNCHANGED rendererVars


-----------------------------------------------------------------------------
(* A client that creates vertex arrays, draws them and drops them.          *)

CreateVertexArray ==
    /\ Running
    /\ Cardinality(DOMAIN vertex_arrays) < MaxArrays
    /\ LET name == Cardinality(DOMAIN vertex_arrays) + 1
       IN \E vertex_array \in
                { VertexArray_new(name, PositionBuffer),
                  VertexArray_with_index_buffer(name, InterleavedBuffer,
                                                set_data_u32(IndexBuffer_new, 6)) } :
            /\ Act(VertexArray_bind(ctx, vertex_array))
            /\ vertex_arrays' = Insert(vertex_arrays, name, vertex_array)
            /\ last_call' = <<"VertexArray::new", name>>
    /\ buffer_binding' = Bound(buffer_binding, calls')
    /\ UNCHANGED <<builder, chain, draws, bufferVars>>
    /\ UNCHANGED rendererVars

(* A vertex array goes out of scope; the builder borrows the one it draws. *)
DropVertexArray ==
    /\ Running
    /\ \E name \in AliveArrays :
         /\ IsSome(builder) => Unwrap(builder).vertex_array.vertex_array_name # name
         /\ Act(VertexArray_drop(ctx, vertex_arrays[name]))
         /\ vertex_arrays' = [vertex_arrays EXCEPT ![name] = Dropped(name)]
         /\ last_call' = <<"drop", name>>
    /\ buffer_binding' =
          [ target \in DOMAIN buffer_binding |->
              IF Call("delete_buffers", buffer_binding[target]) \in
                    {calls'[i] : i \in 1..Len(calls')}
              THEN "null" ELSE buffer_binding[target] ]
    /\ UNCHANGED <<builder, chain, draws, bufferVars>>
    /\ UNCHANGED rendererVars

(* The draw builder goes out of scope. *)
EndDrawBuilder ==
    /\ HasBuilder
    /\ builder' = None
    /\ calls' = <<>>
    /\ last_call' = <<"end">>
    /\ UNCHANGED <<ctx, status, vertex_arrays, chain, draws>>
    /\ UNCHANGED notClient

InitBuffers ==
    /\ status = "running"
    /\ calls = <<>>
    /\ \/ ctx = ContextInit /\ vertex_arrays = EmptyMap /\ buffer_binding = NoBuffers
       \/ /\ ctx = [ContextInit EXCEPT !.vertex_array = 2]
          /\ vertex_arrays = ClientVertexArrays
          /\ buffer_binding = ClientBuffers
    /\ builder = None
    /\ chain = 0
    /\ draws = 0
    /\ last_call = <<>>
    /\ vbo = VertexBuffer_new
    /\ ibo = IndexBuffer_new
    /\ materials = EmptyMap /\ meshes = EmptyMap /\ textures = EmptyMap
    /\ mesh_instances = EmptyMap /\ anchors = EmptyMap /\ cameras = EmptyMap
    /\ lights = EmptyMap /\ programs = EmptyMap
    /\ counters = CountersInit
    /\ passes = <<>>
    /\ camera_used = None
    /\ ids_issued = IssuedInit
    /\ result = None
    /\ ProcessInit

NextBuffers ==
    \/ SetDataF32
    \/ SetAttribF32
    \/ SetDataU32

SpecBuffers == InitBuffers /\ [][NextBuffers]_vars

InitArrays ==
    /\ InitBuffers
    /\ vertex_arrays = EmptyMap

NextArrays ==
    \/ CreateVertexArray
    \/ DropVertexArray
    \/ NewDrawBuilder
    \/ EndDrawBuilder
    \/ SetProgram
    \/ MapAttribLocation
    \/ MapAttribName
    \/ Draw

SpecArrays == InitArrays /\ [][NextArrays]_vars

-----------------------------------------------------------------------------
(* Context guards. An operation takes a guard with ContextGuard::new, which *)
(* makes the context current, and the guard is dropped where its scope      *)
(* ends, by a return or by the unwinding of a panic.                        *)
ContextGuard_new(context) == Call("ContextGuard::new", context)
ContextGuard_drop(context) == Call("ContextGuard::drop", context)

(* A scope whose guard is still held when the operation is over. *)
Guarded_held(context, cs) == <<ContextGuard_new(context)>> \o cs

(* `let _guard = ContextGuard::new(context);` followed by the device calls  *)
(* `cs`, to the end of the scope.                                           *)
Guarded(context, cs) ==
    <<ContextGuard_new(context)>> \o cs \o <<ContextGuard_drop(context)>>

(* VertexBuffer::new, IndexBuffer::new *)
Buffer_new(buffer_name) == <<Call("gen_buffers", buffer_name)>>

(* Drop for VertexArray takes a guard of its own; the buffers dropped after *)
(* it each take theirs.                                                     *)
RECURSIVE drop_guards(_, _)
drop_guards(context, cs) ==
    IF cs = <<>> THEN <<>>
    ELSE Guarded(context, <<Head(cs)>>) \o drop_guards(context, Tail(cs))

(* map_attrib_location and map_attrib_name take the guard after their       *)
(* lookups: one that panicked or returned early took none.                  *)
map_attrib_guards(context, cs) == IF cs = <<>> THEN <<>> ELSE Guarded(context, cs)

(* The guards taken and dropped by the operation `operation`, around the    *)
(* device calls `cs` it issued.                                             *)
guards(operation, context, cs) ==
    CASE operation \in {"VertexBuffer::new", "IndexBuffer::new", "set_data_f32",
                        "set_data_u32", "VertexArray::new", "draw"} ->
           Guarded(context, cs)
      [] operation \in {"drop", "drop_buffer"} -> drop_guards(context, cs)
      [] operation \in {"map_attrib_location", "map_attrib_name"} ->
           map_attrib_guards(context, cs)
      [] OTHER -> cs

(* A client that also creates, fills and drops buffers of its own, and sets *)
(* uniforms on the builder.                                                 *)
BufferDropped == [buffer_name |-> "null"]

NewVertexBuffer ==
    /\ Running
    /\ vertex_arrays = EmptyMap
    /\ vbo = BufferDropped
    /\ vbo' = VertexBuffer_new
    /\ calls' = Buffer_new("vertex")
    /\ last_call' = <<"VertexBuffer::new">>
    /\ UNCHANGED <<ctx, status, vertex_arrays, builder, chain, draws, ibo, buffer_binding>>
    /\ UNCHANGED rendererVars

NewIndexBuffer ==
    /\ Running
    /\ vertex_arrays = EmptyMap
    /\ ibo = BufferDropped
    /\ ibo' = IndexBuffer_new
    /\ calls' = Buffer_new("index")
    /\ last_call' = <<"IndexBuffer::new">>
    /\ UNCHANGED <<ctx, status, vertex_arrays, builder, chain, draws, vbo, buffer_binding>>
    /\ UNCHANGED rendererVars

DropVertexBuffer ==
    /\ Running
    /\ vertex_arrays = EmptyMap
    /\ vbo # BufferDropped
    /\ vbo' = BufferDropped
    /\ calls' = Buffer_drop("vertex")
    /\ last_call' = <<"drop_buffer", "vertex">>
    /\ UNCHANGED <<ctx, status, vertex_arrays, builder, chain, draws, ibo, buffer_binding>>
    /\ UNCHANGED rendererVars

DropIndexBuffer ==
    /\ Running
    /\ vertex_arrays = EmptyMap
    /\ ibo # BufferDropped
    /\ ibo' = BufferDropped
    /\ calls' = Buffer_drop("index")
    /\ last_call' = <<"drop_buffer", "index">>
    /\ UNCHANGED <<ctx, status, vertex_arrays, builder, chain, draws, vbo, buffer_binding>>
    /\ UNCHANGED rendererVars

(* The client fills a buffer it has not dropped, once, before it makes    *)
(* vertex arrays.                                                           *)
FillVertexBuffer ==
    /\ vertex_arrays = EmptyMap
    /\ vbo = VertexBuffer_new
    /\ SetDataF32

FillIndexBuffer ==
    /\ vertex_arrays = EmptyMap
    /\ ibo = IndexBuffer_new
    /\ SetDataU32

(* The client sets one uniform on a builder. *)
SetFirstUniform ==
    /\ HasBuilder
    /\ DOMAIN Unwrap(builder).uniforms = {}
    /\ SetUniform

NextGuards ==
    \/ NewVertexBuffer
    \/ NewIndexBuffer
    \/ DropVertexBuffer
    \/ DropIndexBuffer
    \/ FillVertexBuffer
    \/ FillIndexBuffer
    \/ SetFirstUniform
    \/ NextArrays

SpecGuards == InitArrays /\ [][NextGuards]_vars

-----------------------------------------------------------------------------
(* GlRender: construction and the registries.                              *)

(* The scene objects the renderer reads. An anchor's transform, a color, a *)
(* direction are opaque values, named by what they belong to.              *)
Camera(anchor) == [anchor |-> anchor]
MeshInstance(mesh, material, anchor) ==
    [mesh |-> mesh, material |-> material, anchor |-> anchor]
Material(shader, properties) == [shader |-> shader, properties |-> properties]
MaterialProperty(type, value) == [type |-> type, value |-> value]
PointLight(anchor) == [data |-> [type |-> "Point"], anchor |-> anchor]
DirectionalLight(anchor) == [data |-> [type |-> "Directional"], anchor |-> anchor]
TextureHandle(id) == <<"texture", id>>
(* GlTexture2d::empty(): the default texture created while drawing a mesh   *)
(* instance.                                                                *)
EmptyTexture(instance) == <<"empty", instance>>

(* The program GlRender::new() builds for the default material. *)
DefaultProgram == Program(1, 1, AllUniforms, {"vertex_position", "vertex_normal", "vertex_uv0"})

(* Inputs of the registration calls. An anchor id of 0 was issued by no     *)
(* register_anchor of this renderer.                                        *)
AnchorInputs == {None, Some(1), Some(0)}
CameraAnchorInputs == {None, Some(1)}
MaterialInput ==
    Material(1, [ n \in {"surface_color", "surface_shininess", "surface_offset",
                         "surface_diffuse"} |->
                    CASE n = "surface_color" -> MaterialProperty("Color", "color")
                      [] n = "surface_shininess" -> MaterialProperty("f32", "shininess")
                      [] n = "surface_offset" -> MaterialProperty("Vector3", "offset")
                      [] OTHER -> MaterialProperty("Texture", 1) ])
MaterialInputs == {MaterialInput, Material(1, EmptyMap)}
LightInputs == {PointLight(a) : a \in AnchorInputs} \cup {DirectionalLight(None)}

(* The vertex array register_mesh builds: interleaved position and normal,  *)
(* no texcoord, and an index buffer.                                        *)
MeshVertexArray(name) ==
    VertexArray_with_index_buffer(
        name,
        set_attrib_f32(
            set_attrib_f32(set_data_f32(VertexBuffer_new, 18),
                           "position", AttribLayout(3, 6, 0)),
            "normal", AttribLayout(3, 6, 3)),
        set_data_u32(IndexBuffer_new, 3))

(* The objects registered so far, the default program included. *)
SceneSize ==
    Cardinality(DOMAIN anchors) + Cardinality(DOMAIN meshes)
      + Cardinality(DOMAIN textures) + Cardinality(DOMAIN cameras)
      + Cardinality(DOMAIN lights) + Cardinality(DOMAIN mesh_instances)
      + Cardinality(DOMAIN materials) + Cardinality(DOMAIN programs)

(* A registration that reads the counter without advancing it. *)
Register_peek(registry, counter) ==
    /\ Running
    /\ counters' = counters
    /\ status' = IF counters[counter] \in DOMAIN registry THEN "panicked" ELSE "running"
    /\ ids_issued' = [ids_issued EXCEPT ![counter] = Append(@, counters[counter])]
    /\ passes' = <<>>
    /\ camera_used' = None
    /\ result' = None
    /\ UNCHANGED buffer_binding
    /\ UNCHANGED notRenderer

Register(registry, counter) ==
    /\ Running
    /\ counters' = [counters EXCEPT ![counter] = NextId(counter)]
    /\ status' = IF NextId(counter) \in DOMAIN registry THEN "panicked" ELSE "running"
    /\ ids_issued' = [ids_issued EXCEPT ![counter] = Append(@, NextId(counter))]
    /\ passes' = <<>>
    /\ camera_used' = None
    /\ result' = None
    /\ UNCHANGED buffer_binding
    /\ UNCHANGED notRenderer


register_anchor ==
    /\ counters["anchor_counter"] < MaxAnchors
    /\ SceneSize < MaxScene
    /\ Register(anchors, "anchor_counter")
    /\ anchors' = Insert(anchors, NextId("anchor_counter"), "anchor")
    /\ calls' = <<>>
    /\ UNCHANGED <<ctx, materials, meshes, textures, mesh_instances, cameras, lights, programs>>

register_camera ==
    /\ counters["camera_counter"] < MaxCameras
    /\ SceneSize < MaxScene
    /\ \E anchor \in CameraAnchorInputs :
         /\ Register(cameras, "camera_counter")
         /\ cameras' = Insert(cameras, NextId("camera_counter"), Camera(anchor))
    /\ calls' = <<>>
    /\ UNCHANGED <<ctx, materials, meshes, textures, mesh_instances, anchors, lights, programs>>

register_light ==
    /\ counters["light_counter"] < MaxLights
    /\ SceneSize < MaxScene
    /\ \E light \in LightInputs :
         /\ Register(lights, "light_counter")
         /\ lights' = Insert(lights, NextId("light_counter"), light)
    /\ calls' = <<>>
    /\ UNCHANGED <<ctx, materials, meshes, textures, mesh_instances, anchors, cameras, programs>>

register_mesh_instance ==
    /\ counters["mesh_instance_counter"] < MaxInstances
    /\ SceneSize < MaxScene
    /\ \E mesh \in DOMAIN meshes, anchor \in AnchorInputs :
         LET mesh_instance == MeshInstance(mesh, MaterialInput, anchor)
         IN /\ Register(mesh_instances, "mesh_instance_counter")
            /\ mesh_instances' =
                  Insert(mesh_instances, NextId("mesh_instance_counter"), mesh_instance)
    /\ calls' = <<>>
    /\ UNCHANGED <<ctx, materials, meshes, textures, anchors, cameras, lights, programs>>

register_texture ==
    /\ counters["texture_counter"] < MaxTextures
    /\ SceneSize < MaxScene
    /\ Register(textures, "texture_counter")
    /\ textures' = Insert(textures, NextId("texture_counter"),
                          TextureHandle(NextId("texture_counter")))
    /\ calls' = <<Call("gen_textures", TextureHandle(NextId("texture_counter")))>>
    /\ UNCHANGED <<ctx, materials, meshes, mesh_instances, anchors, cameras, lights, programs>>

register_material ==
    /\ counters["material_counter"] < MaxMaterials
    /\ SceneSize < MaxScene
    /\ \E material \in MaterialInputs :
         /\ Register(materials, "material_counter")
         /\ materials' = Insert(materials, NextId("material_counter"), material)
    /\ calls' = <<>>
    /\ UNCHANGED <<ctx, meshes, textures, mesh_instances, anchors, cameras, lights, programs>>

register_mesh ==
    /\ counters["mesh_counter"] < MaxMeshes
    /\ SceneSize < MaxScene
    /\ Running
    /\ LET mesh_id == NextId("mesh_counter")
           name == Cardinality(DOMAIN meshes) + 1
           created == [ctx EXCEPT !.vertex_array = name]
           \* the entry insert() returns, if any, is dropped where it is returned
           displaced == IF mesh_id \in DOMAIN meshes
                        THEN VertexArray_drop(created, meshes[mesh_id].vertex_array)
                        ELSE Outcome(created, <<>>, TRUE)
       IN /\ counters' = [counters EXCEPT !["mesh_counter"] = mesh_id]
          /\ meshes' = Insert(meshes, mesh_id, [vertex_array |-> MeshVertexArray(name)])
          /\ ctx' = displaced.ctx
          /\ calls' = << Call("gen_buffers", vertex_buffer_name(name)),
                         Call("bind_buffer", <<"Array", vertex_buffer_name(name)>>),
                         Call("buffer_data", <<"Array", 18 * 4>>),
                         Call("bind_buffer", <<"Array", "null">>),
                         Call("gen_buffers", index_buffer_name(name)),
                         Call("bind_buffer", <<"ElementArray", index_buffer_name(name)>>),
                         Call("buffer_data", <<"ElementArray", 3 * 4>>),
                         Call("bind_buffer", <<"ElementArray", "null">>),
                         Call("gen_vertex_arrays", name),
                         Call("bind_vertex_array", name),
                         Call("bind_buffer", <<"Array", vertex_buffer_name(name)>>),
                         Call("bind_buffer", <<"ElementArray", index_buffer_name(name)>>) >>
                       \o displaced.calls
    /\ buffer_binding' = Bound(buffer_binding, calls')
    /\ ids_issued' = [ids_issued EXCEPT !["mesh_counter"] = Append(@, NextId("mesh_counter"))]
    /\ passes' = <<>>
    /\ camera_used' = None
    /\ result' = None
    /\ UNCHANGED <<status, materials, textures, mesh_instances, anchors, cameras, lights, programs>>
    /\ UNCHANGED notRenderer

-----------------------------------------------------------------------------
(* GlRender::draw(): one frame.                                            *)


-----------------------------------------------------------------------------
(* GlRender::build_material(): the shader sources generated for a material   *)
(* source, their compilation, and the Material built.                        *)


-----------------------------------------------------------------------------
(* GlRender: the lookups by id.                                             *)

(* A lookup that falls back to the entry registered last. *)
get_or_latest(registry, id) ==
    IF id \in DOMAIN registry THEN Some(registry[id])
    ELSE IF DOMAIN registry = {} THEN None
    ELSE Some(registry[CHOOSE k \in DOMAIN registry : \A j \in DOMAIN registry : j <= k])

(* HashMap::get *)
get(registry, id) ==
    IF id \in DOMAIN registry THEN Some(registry[id]) ELSE None

(* A call of the renderer and the value it returned. *)
Returned(method, argument, value) ==
    [method |-> method, argument |-> argument, value |-> value]

(* Ids asked for: 0 is returned by no registration. *)
IdInputs == 0..2

(* get_*(id) and get_*_mut(id): the entry, by reference. *)
Lookup(method, registry) ==
    /\ Running
    /\ \E id \in IdInputs :
         result' = Some(Returned(method, id, get(registry, id)))
    /\ calls' = <<>>
    /\ UNCHANGED <<ctx, status, buffer_binding, registryVars, passes, camera_used, ids_issued>>
    /\ UNCHANGED notRenderer

get_material == Lookup("get_material", materials)
get_mesh_instance == Lookup("get_mesh_instance", mesh_instances)
get_anchor == Lookup("get_anchor", anchors)
get_camera == Lookup("get_camera", cameras)
get_light == Lookup("get_light", lights)

(* A material source: the declared properties, in order, and the program     *)
(* sources given, in order. `value` is what the declaration says of the      *)
(* property beyond its name and type.                                        *)
Property(name, property_type, value) ==
    [name |-> name, property_type |-> property_type, value |-> value]
ProgramSource(stage, source) == [stage |-> stage, source |-> source]
MaterialSource(properties, programSources) ==
    [properties |-> properties, programs |-> programSources]

(* Result<Material, BuildMaterialError> *)
Ok(x) == <<"Ok", x>>
BuildMaterialError == <<"Err", "BuildMaterialError">>

(* A mapping that declares every property a vec4. *)
type_str_vec4(property_type) == "vec4"

type_str(property_type) ==
    CASE property_type = "Color" -> "vec4"
      [] property_type = "Texture2d" -> "sampler2D"
      [] property_type = "f32" -> "float"
      [] property_type = "Vector3" -> "vec3"

(* The generated declarations, one line per element. *)
uniform_declarations(properties) ==
    [ i \in 1..Len(properties) |->
        <<"uniform ", type_str(properties[i].property_type), " ",
          properties[i].name, ";\n">> ]

(* source.programs.iter().find(..).map(|p| p.source()) *)
find_source(programSources, stage) ==
    LET found == {i \in 1..Len(programSources) : programSources[i].stage = stage}
    IN IF found = {} THEN None
       ELSE Some(programSources[CHOOSE i \in found : \A j \in found : i <= j].source)

DEFAULT_VERT_MAIN == "DEFAULT_VERT_MAIN"

(* The text handed to the compiler for one stage: the format! template     *)
(* filled with the built-in uniforms, the generated declarations and the   *)
(* body after keyword replacement.                                          *)
StageSource(stage, declarations, raw_source) ==
    [ stage                |-> stage,
      built_in_uniforms    |-> BuiltInUniforms,
      uniform_declarations |-> declarations,
      main                 |-> <<"replaced", raw_source>> ]

(* .unwrap_or(DEFAULT_VERT_MAIN) *)
vert_raw_source(source) ==
    LET found == find_source(source.programs, "Vertex")
    IN IF IsSome(found) THEN Unwrap(found) ELSE DEFAULT_VERT_MAIN

(* A fragment stage that falls back to a default body, as the vertex stage *)
(* does.                                                                    *)
frag_raw_source_defaulted(source) ==
    LET found == find_source(source.programs, "Fragment")
    IN Some(IF IsSome(found) THEN Unwrap(found) ELSE "frag_lit")

(* .ok_or(BuildMaterialError)?: None is the error. *)
frag_raw_source(source) == find_source(source.programs, "Fragment")

(* GlShader::new and Program::new: whether a stage compiles and whether two *)
(* compiled stages link is decided by the text.                             *)
BrokenSources == {"vert_broken", "frag_broken"}
UnlinkableSources == {"frag_unlinkable"}
Compiles(text) == text.main[2] \notin BrokenSources
Links(vert, frag) == frag.main[2] \notin UnlinkableSources

MaterialDefault(property_type) ==
    CASE property_type = "Color" -> MaterialProperty("Color", "Color::default()")
      [] property_type = "Texture2d" -> MaterialProperty("Texture", 0)
      [] property_type = "f32" -> MaterialProperty("f32", "f32::default()")
      [] property_type = "Vector3" -> MaterialProperty("Vector3", "Vector3::default()")


(* A material whose properties hold the values its source declares. *)
BuiltMaterial_declared(program_id, properties) ==
    Material(program_id,
             [ n \in {properties[i].name : i \in 1..Len(properties)} |->
                 LET p == properties[CHOOSE i \in 1..Len(properties) : properties[i].name = n]
                 IN MaterialProperty(MaterialDefault(p.property_type).type, p.value) ])

(* A material that names the program id after the one registered. *)
BuiltMaterial_next(program_id, properties) ==
    Material(program_id + 1,
             [n \in {properties[i].name : i \in 1..Len(properties)} |-> MaterialDefault("f32")])

(* Material::new(program_id) followed by the set_* of every property. *)
BuiltMaterial(program_id, properties) ==
    Material(program_id,
             [ n \in {properties[i].name : i \in 1..Len(properties)} |->
                 MaterialDefault(
                     properties[CHOOSE i \in 1..Len(properties) :
                                    /\ properties[i].name = n
                                    /\ \A j \in 1..Len(properties) :
                                          properties[j].name = n => j <= i].property_type) ])

(* The compilation: the sources submitted to the compiler, in order, and    *)
(* the stage that failed ("none": the program linked).                      *)
Compilation(submitted, failed) == [submitted |-> submitted, failed |-> failed]

compile(source) ==
    LET declarations == uniform_declarations(source.properties)
        vert == StageSource("Vertex", declarations, vert_raw_source(source))
        frag_raw == frag_raw_source(source)
    IN IF ~Compiles(vert) THEN Compilation(<<vert>>, "vertex")
       ELSE IF ~IsSome(frag_raw) THEN Compilation(<<vert>>, "fragment source")
       ELSE LET frag == StageSource("Fragment", declarations, Unwrap(frag_raw))
            IN IF ~Compiles(frag) THEN Compilation(<<vert, frag>>, "fragment")
               ELSE IF ~Links(vert, frag) THEN Compilation(<<vert, frag>>, "link")
               ELSE Compilation(<<vert, frag>>, "none")

(* The program linked from the submitted stages: its uniform table holds   *)
(* the built-in uniforms and the declared ones.                             *)
LinkedProgram(handle, context, submitted) ==
    Program(handle, context,
            {BuiltInUniforms[i] : i \in 1..Len(BuiltInUniforms)}
              \cup {submitted[1].uniform_declarations[i][4] :
                       i \in 1..Len(submitted[1].uniform_declarations)},
            {VertexInputs[i] : i \in 1..Len(VertexInputs)})

PropertyInputs ==
    { <<Property("surface_color", "Color", "red"),
        Property("surface_diffuse", "Texture2d", 1)>>,
      <<Property("surface_diffuse", "Texture2d", 0),
        Property("surface_shininess", "f32", "3.0"),
        Property("surface_offset", "Vector3", "up"),
        Property("surface_color", "Color", "white")>> }
ProgramSourceInputs ==
    { <<ProgramSource("Fragment", "frag_lit")>>,
      <<ProgramSource("Vertex", "vert_custom"), ProgramSource("Fragment", "frag_lit")>>,
      <<ProgramSource("Vertex", "vert_custom")>>,
      <<ProgramSource("Vertex", "vert_broken"), ProgramSource("Fragment", "frag_lit")>>,
      <<ProgramSource("Fragment", "frag_broken")>>,
      <<ProgramSource("Fragment", "frag_unlinkable")>> }
MaterialSourceInputs ==
    {MaterialSource(p, s) : p \in PropertyInputs, s \in ProgramSourceInputs}


(* A build that keeps the program object whether or not it linked. *)
programs_built_unlinked(built, program_id, handle) ==
    IF built.failed \in {"none", "link"}
    THEN Insert(programs, program_id, LinkedProgram(handle, ctx.id, built.submitted))
    ELSE programs

(* Program::new(..).map_err(..)? and self.programs.insert(program_id, program) *)
programs_built(built, program_id, handle) ==
    IF built.failed = "none"
    THEN Insert(programs, program_id, LinkedProgram(handle, ctx.id, built.submitted))
    ELSE programs

build_material ==
    /\ Running
    /\ counters["shader_counter"] < MaxPrograms
    /\ SceneSize < MaxScene
    /\ \E source \in MaterialSourceInputs :
         LET built == compile(source)
             program_id == NextId("shader_counter")
             handle == Cardinality(DOMAIN programs) + 1
         IN /\ calls' = [i \in 1..Len(built.submitted) |->
                            Call("compile_shader", built.submitted[i])]
                          \o IF built.failed \in {"none", "link"}
                             THEN <<Call("link_program", handle)>> ELSE <<>>
            /\ IF built.failed = "none"
               THEN /\ counters' = [counters EXCEPT !["shader_counter"] = program_id]
                    /\ ids_issued' = [ids_issued EXCEPT !["shader_counter"] =
                                         Append(@, program_id)]
                    /\ result' = Some(Returned("build_material", source,
                                                Ok(BuiltMaterial(program_id, source.properties))))
               ELSE /\ result' = Some(Returned("build_material", source, BuildMaterialError))
                    /\ UNCHANGED <<counters, ids_issued>>
            /\ programs' = programs_built(built, program_id, handle)
    /\ passes' = <<>>
    /\ camera_used' = None
    /\ UNCHANGED <<ctx, status, buffer_binding, materials, meshes, textures, mesh_instances,
                   anchors, cameras, lights>>
    /\ UNCHANGED notRenderer


-----------------------------------------------------------------------------
(* Drop for GlRender.                                                       *)

(* The renderer dropped without emptying its containers first: its fields   *)
(* are dropped in declaration order, the context before the registries.     *)
teardown_fields(releases, context_release) == context_release \o releases

(* drop() empties the containers; the fields, the context first among them, *)
(* are dropped after it returns.                                            *)
teardown(releases, context_release) == releases \o context_release

GlRender_drop ==
    /\ Running
    /\ \E meshOrder \in Orderings(DOMAIN meshes),
          textureOrder \in Orderings(DOMAIN textures),
          programOrder \in Orderings(DOMAIN programs) :
         LET arrays == [i \in 1..Len(meshOrder) |-> meshes[meshOrder[i]].vertex_array]
             dropped == VertexArrays_drop(ctx, arrays)
             releases ==
                 dropped.calls
                   \o [i \in 1..Len(textureOrder) |->
                         Call("delete_textures", textures[textureOrder[i]])]
                   \o [i \in 1..Len(programOrder) |->
                         Call("delete_program", programs[programOrder[i]].id)]
         IN /\ ctx' = dropped.ctx
            /\ calls' = teardown(releases, <<Call("destroy_context", ctx.id)>>)
    /\ status' = "dropped"
    /\ materials' = EmptyMap /\ meshes' = EmptyMap /\ textures' = EmptyMap
    /\ mesh_instances' = EmptyMap /\ anchors' = EmptyMap /\ cameras' = EmptyMap
    /\ lights' = EmptyMap /\ programs' = EmptyMap
    /\ buffer_binding' = NoBuffers
    /\ passes' = <<>>
    /\ camera_used' = None
    /\ result' = None
    /\ UNCHANGED <<counters, ids_issued>>
    /\ UNCHANGED notRenderer

(* The frame so far: the context, the device calls issued, the draws made  *)
(* (instance, light or 0 for the ambient pass, the index of the draw call   *)
(* in `calls`, the uniforms staged when it was issued), and FALSE in `ok`   *)
(* once the frame has panicked.                                             *)
Frame(c, cs, ps, ok) == [ctx |-> c, calls |-> cs, passes |-> ps, ok |-> ok]
(* A failed lookup that is passed over. *)
PassedOver(f) == f
(* The frame ends in a panic (expect, unimplemented!). *)
Panicked(f) == [f EXCEPT !.ok = FALSE]

(* An operation on the context within the frame. *)
Within(f, r) == Frame(r.ctx, f.calls \o r.calls, f.passes, r.ok)

(* builder.uniform(name, value) with a program set. *)
Staged(b, name, value) == uniform(b, name, value).builder

RECURSIVE StagedAll(_, _)
StagedAll(b, pairs) ==
    IF pairs = <<>> THEN b
    ELSE StagedAll(Staged(b, pairs[1][1], pairs[1][2]), Tail(pairs))

(* One draw_builder.draw() of the frame. The uniform map is iterated in     *)
(* ascending order of location.                                             *)
Drawn(f, b, instance, light, r) ==
    Frame(r.ctx, f.calls \o r.calls,
          IF r.ok
          THEN Append(f.passes, [ instance |-> instance, light |-> light,
                                  call |-> Len(f.calls) + Len(r.calls),
                                  uniforms |-> b.uniforms ])
          ELSE f.passes,
          r.ok)
Pass(f, b, instance, light) ==
    Drawn(f, b, instance, light, draw(b, f.ctx, Ascending(DOMAIN b.uniforms)))

(* A per-light stage that draws nothing. *)
draw_lights_none(f, b, camera, instance, lightOrder) == f

(* The uniforms staged for a light on the builder the passes share. *)
LightUniforms(b, camera, id) ==
    StagedAll(b,
        << <<"light_color", UniformValue("f32x4", <<"color", id>>)>>,
           <<"light_strength", UniformValue("f32", <<"strength", id>>)>> >>
        \o IF lights[id].data.type = "Point"
           THEN << <<"light_type", UniformValue("i32", 1)>>,
                   <<"light_position", UniformValue("f32x4", <<"position", id>>)>>,
                   <<"light_position_view",
                     UniformValue("f32x4", <<"position_view", id, camera>>)>>,
                   <<"light_radius", UniformValue("f32", <<"radius", id>>)>> >>
           ELSE << <<"light_type", UniformValue("i32", 2)>>,
                   <<"light_direction", UniformValue("f32x3", <<"direction", id>>)>>,
                   <<"light_direction_view",
                     UniformValue("f32x3", <<"direction_view", id, camera>>)>> >>)
(* A point light looks its anchor up; a directional light needs none. *)
LightResolves(id) ==
    \/ lights[id].data.type # "Point"
    \/ /\ IsSome(lights[id].anchor)
       /\ Unwrap(lights[id].anchor) \in DOMAIN anchors

RECURSIVE draw_lights(_, _, _, _, _)
draw_light(f, b, camera, instance, lightOrder) ==
    draw_lights(Pass(f, b, instance, Head(lightOrder)), b, camera, instance,
                Tail(lightOrder))
draw_lights(f, b, camera, instance, lightOrder) ==
    IF lightOrder = <<>> \/ ~f.ok THEN f
    ELSE IF ~LightResolves(Head(lightOrder)) THEN Panicked(f)
    ELSE draw_light(f, LightUniforms(b, camera, Head(lightOrder)), camera, instance,
                    lightOrder)

(* Texture properties staged with the default texture whatever their id. *)
PropertyUniform_default(property, default_texture) ==
    CASE property.type = "Color" -> UniformValue("f32x4", property.value)
      [] property.type = "f32" -> UniformValue("f32", property.value)
      [] property.type = "Vector3" -> UniformValue("f32x3", property.value)
      [] property.type = "Texture" -> GlTexture(default_texture)

(* The uniform a material property is staged as. *)
PropertyUniform(property, default_texture) ==
    CASE property.type = "Color" -> UniformValue("f32x4", property.value)
      [] property.type = "f32" -> UniformValue("f32", property.value)
      [] property.type = "Vector3" -> UniformValue("f32x3", property.value)
      [] property.type = "Texture" ->
            IF property.value \in DOMAIN textures
            THEN GlTexture(textures[property.value])
            ELSE GlTexture(default_texture)

RECURSIVE StagedProperties(_, _, _, _)
StagedProperties(b, properties, names, default_texture) ==
    IF names = {} THEN b
    ELSE LET n == CHOOSE x \in names : TRUE
         IN StagedProperties(
                Staged(b, n, PropertyUniform(properties[n], default_texture)),
                properties, names \ {n}, default_texture)

(* The transforms of a mesh instance seen from a camera, and the uniforms   *)
(* common to every pass of the instance.                                    *)
TransformUniforms(camera, instance) ==
    << <<"model_transform", GlMatrix(16, <<"model", instance>>)>>,
       <<"normal_transform", GlMatrix(9, <<"normal", instance>>)>>,
       <<"view_normal_transform", GlMatrix(9, <<"view_normal", instance, camera>>)>>,
       <<"view_transform", GlMatrix(16, <<"view", camera>>)>>,
       <<"model_view_transform", GlMatrix(16, <<"model_view", instance, camera>>)>>,
       <<"projection_transform", GlMatrix(16, <<"projection", camera>>)>>,
       <<"model_view_projection",
         GlMatrix(16, <<"model_view_projection", instance, camera>>)>>,
       <<"global_ambient", UniformValue("f32x4", "ambient_color")>>,
       <<"camera_position", UniformValue("f32x4", <<"camera_position", camera>>)>> >>

(* The builder of a mesh instance: program, culling, depth test. *)
InstanceBuilder(context, id) ==
    depth_test(
        cull(program(DrawBuilder_new(context, meshes[mesh_instances[id].mesh].vertex_array,
                                     "Triangles"),
                     programs[mesh_instances[id].material.shader]).builder,
             "Back").builder,
        "Less").builder
(* The three map_attrib_name calls. *)
MapAttrib(f, b, buffer_attrib_name, program_attrib_name) ==
    Within(f, map_attrib_name(b, f.ctx, buffer_attrib_name, program_attrib_name))
AttribsMapped(f, b) ==
    MapAttrib(MapAttrib(MapAttrib(f, b, "position", "vertex_position"),
                        b, "normal", "vertex_normal"),
              b, "texcoord", "vertex_uv0")
(* The builder with the transform and material uniforms and light_type 0. *)
AmbientBuilder(b, camera, id) ==
    Staged(StagedProperties(StagedAll(b, TransformUniforms(camera, id)),
                            mesh_instances[id].material.properties,
                            DOMAIN mesh_instances[id].material.properties,
                            EmptyTexture(id)),
           "light_type", UniformValue("i32", 0))
(* The ambient draw, then the builder switched to additive passes and the   *)
(* loop over the lights.                                                    *)
draw_passes(f, ambient, camera, id, lightOrder) ==
    draw_lights(Pass(f, ambient, id, 0),
                blend(depth_test(ambient, "LessThanOrEqual").builder, "One", "One").builder,
                camera, id, lightOrder)
draw_mesh(f, b, camera, id, lightOrder) ==
    draw_passes(AttribsMapped(f, b), AmbientBuilder(b, camera, id), camera, id, lightOrder)

(* The body of the loop over the mesh instances, for one of them. *)
draw_instance(f, camera, id, lightOrder) ==
    IF ~IsSome(mesh_instances[id].anchor) THEN f
    ELSE IF Unwrap(mesh_instances[id].anchor) \notin DOMAIN anchors THEN Panicked(f)
    ELSE IF mesh_instances[id].mesh \notin DOMAIN meshes THEN Panicked(f)
    ELSE IF mesh_instances[id].material.shader \notin DOMAIN programs
    THEN Panicked(Within(f, Outcome(f.ctx, <<Call("gen_textures", EmptyTexture(id))>>, TRUE)))
    ELSE draw_mesh(Within(f, Outcome(f.ctx, <<Call("gen_textures", EmptyTexture(id))>>, TRUE)),
                   InstanceBuilder(f.ctx.id, id), camera, id, lightOrder)

(* A loop over the mesh instances that ends after the first one. *)
draw_instances_first(f, camera, instanceOrder, lightOrder) ==
    IF instanceOrder = <<>> THEN f
    ELSE draw_instance(f, camera, Head(instanceOrder), lightOrder)

RECURSIVE draw_instances(_, _, _, _)
draw_instances(f, camera, instanceOrder, lightOrder) ==
    IF instanceOrder = <<>> \/ ~f.ok THEN f
    ELSE draw_instances(draw_instance(f, camera, Head(instanceOrder), lightOrder),
                        camera, Tail(instanceOrder), lightOrder)

(* A frame that is cleared and neither drawn nor presented. *)
draw_frame_unswapped(camera, instanceOrder, lightOrder) ==
    Frame(ctx, <<Call("clear", <<>>)>>, <<>>, TRUE)

(* The end of draw(): the buffers are swapped unless the frame panicked. *)
Presented(f) ==
    IF f.ok THEN [f EXCEPT !.calls = Append(@, Call("swap_buffers", <<>>))] ELSE f
(* The frame of a camera, from the cleared buffer on. *)
draw_camera(cleared, camera, instanceOrder, lightOrder) ==
    IF ~IsSome(camera) THEN cleared
    ELSE IF ~IsSome(cameras[Unwrap(camera)].anchor) THEN Panicked(cleared)
    ELSE IF Unwrap(cameras[Unwrap(camera)].anchor) \notin DOMAIN anchors
    THEN Panicked(cleared)
    ELSE draw_instances(cleared, Unwrap(camera), instanceOrder, lightOrder)

(* The whole of draw(): `camera` is the first camera the registry yields    *)
(* (None when there is none), the orders are those of the registries.       *)
draw_frame(camera, instanceOrder, lightOrder) ==
    Presented(draw_camera(Frame(ctx, <<Call("clear", <<>>)>>, <<>>, TRUE),
                          camera, instanceOrder, lightOrder))

(* A registry that yields no camera. *)
NoCamera == {None}

(* The camera cameras.values().next() yields. *)
FirstCamera == IF DOMAIN cameras = {} THEN {None} ELSE {Some(id) : id \in DOMAIN cameras}

(* The renderer after the frame f. *)
FrameDrawn(f) ==
    /\ ctx' = f.ctx
    /\ calls' = f.calls
    /\ passes' = f.passes
    /\ status' = IF f.ok THEN "running" ELSE "panicked"

GlRender_draw ==
    /\ Running
    /\ \E camera \in FirstCamera,
          instanceOrder \in Orderings(DOMAIN mesh_instances),
          lightOrder \in Orderings(DOMAIN lights) :
         /\ FrameDrawn(draw_frame(camera, instanceOrder, lightOrder))
         /\ camera_used' = camera
    /\ UNCHANGED registryVars
    /\ result' = None
    /\ UNCHANGED <<buffer_binding, ids_issued>>
    /\ UNCHANGED notRenderer

Init ==
    /\ ctx = ContextInit
    /\ status = "running"
    /\ calls = <<>>
    /\ vertex_arrays = EmptyMap
    /\ builder = None
    /\ chain = 0
    /\ draws = 0
    /\ last_call = <<>>
    /\ vbo = VertexBuffer_new
    /\ ibo = IndexBuffer_new
    /\ buffer_binding = NoBuffers
    /\ materials = EmptyMap /\ meshes = EmptyMap /\ textures = EmptyMap
    /\ mesh_instances = EmptyMap /\ anchors = EmptyMap /\ cameras = EmptyMap
    /\ lights = EmptyMap
    /\ programs = [id \in {1} |-> DefaultProgram]
    /\ counters = [CountersInit EXCEPT !["shader_counter"] = 1]
    /\ passes = <<>>
    /\ camera_used = None
    /\ ids_issued = [IssuedInit EXCEPT !["shader_counter"] = <<1>>]
    /\ result = None
    /\ ProcessInit

Next ==
    \/ register_anchor
    \/ register_camera
    \/ register_light
    \/ register_mesh_instance
    \/ register_texture
    \/ register_mesh
    \/ GlRender_draw

Spec == Init /\ [][Next]_vars

-----------------------------------------------------------------------------
(* Properties of GlRender::draw().                                          *)


(* The registry API on its own: registrations and material builds, without  *)
(* frames.                                                                    *)
CanRegister == SceneSize < MaxRegistered
NextRegistry ==
    \/ CanRegister /\ register_anchor
    \/ CanRegister /\ register_camera
    \/ CanRegister /\ register_light
    \/ CanRegister /\ register_mesh_instance
    \/ CanRegister /\ register_texture
    \/ CanRegister /\ register_mesh
    \/ CanRegister /\ register_material
    \/ CanRegister /\ build_material
    \/ get_material
    \/ get_mesh_instance
    \/ get_anchor
    \/ get_camera
    \/ get_light

SpecRegistry == Init /\ [][NextRegistry]_vars

-----------------------------------------------------------------------------
(* The bind-state cache is a RefCell<ContextInner>. borrow_mut() panics     *)
(* when the cell is borrowed, borrow() when it is mutably borrowed; the     *)
(* RefMut or Ref is dropped where its scope ends.                           *)
RefCell_borrow_mut == Call("borrow_mut", <<>>)
RefMut_drop == Call("drop RefMut", <<>>)
RefCell_borrow == Call("borrow", <<>>)
Ref_drop == Call("drop Ref", <<>>)
IsBorrow(e) == e.op \in {"borrow_mut", "drop RefMut", "borrow", "drop Ref", "nop"}

(* The cell's borrow flag after the events `es`: -1 when mutably borrowed,  *)
(* else the number of shared borrows.                                       *)
Count(es, op) == Cardinality({j \in 1..Len(es) : es[j].op = op})
BorrowFlag(es) ==
    IF Count(es, "borrow_mut") > Count(es, "drop RefMut") THEN -1
    ELSE Count(es, "borrow") - Count(es, "drop Ref")
(* borrow_mut() panics unless the flag is 0, borrow() when it is -1. *)
BorrowFails(es, i) ==
    \/ es[i].op = "borrow_mut" /\ BorrowFlag(SubSeq(es, 1, i - 1)) # 0
    \/ es[i].op = "borrow" /\ BorrowFlag(SubSeq(es, 1, i - 1)) = -1

(* A mutable borrow that is still held when the operation is over. *)
BorrowedMut_held(cs) == <<RefCell_borrow_mut>> \o cs

(* `let mut context = self.context.borrow_mut();` followed by the device    *)
(* calls `cs`, to the end of the scope.                                     *)
BorrowedMut(cs) == <<RefCell_borrow_mut>> \o cs \o <<RefMut_drop>>

(* The borrows of the cache taken and dropped by the gl-util operation      *)
(* `operation`, around the device calls `cs` it issued. Drop for            *)
(* VertexArray has dropped its borrow when the buffers are dropped.         *)
borrows(operation, cs) ==
    CASE operation \in {"VertexArray::new", "draw"} -> BorrowedMut(cs)
      [] operation = "drop" -> BorrowedMut(<<Head(cs)>>) \o Tail(cs)
      [] operation \in {"map_attrib_location", "map_attrib_name"} ->
           IF cs = <<>> THEN <<>> ELSE BorrowedMut(cs)
      [] operation = "program" -> <<RefCell_borrow, Ref_drop>> \o cs
      [] OTHER -> cs

(* The borrows of a frame of GlRender::draw(): the frame's clear, its empty *)
(* textures and its swap are issued with no borrow of the renderer's own;   *)
(* each map_attrib_name, up to its vertex_attrib_pointer, and each          *)
(* DrawBuilder::draw(), up to its draw call, borrows for its calls; one     *)
(* that panicked unwinds. Every call has a place before it and one after.   *)
Nop == Call("nop", <<>>)
frame_borrows(cs) ==
    LET free(i) == cs[i].op \in {"clear", "gen_textures", "swap_buffers"}
        ends(i) == IsDrawCall(cs[i]) \/ cs[i].op = "vertex_attrib_pointer"
        first(i) == ~free(i) /\ (i = 1 \/ free(i - 1) \/ ends(i - 1))
        last(i) == ~free(i) /\ (i = Len(cs) \/ ends(i) \/ free(i + 1))
    IN [ k \in 1..(3 * Len(cs)) |->
           LET i == (k + 2) \div 3
           IN CASE k % 3 = 1 -> IF first(i) THEN RefCell_borrow_mut ELSE Nop
                [] k % 3 = 2 -> cs[i]
                [] OTHER -> IF last(i) THEN RefMut_drop ELSE Nop ]

(* A process that is a client of gl-util or that owns a renderer. *)
OwnsRenderer == programs # EmptyMap
InitBorrows == Init \/ InitArrays
NextBorrows ==
    \/ OwnsRenderer /\ register_anchor
    \/ OwnsRenderer /\ register_camera
    \/ OwnsRenderer /\ register_light
    \/ OwnsRenderer /\ register_mesh_instance
    \/ OwnsRenderer /\ register_texture
    \/ OwnsRenderer /\ register_mesh
    \/ OwnsRenderer /\ GlRender_draw
    \/ ~OwnsRenderer /\ CreateVertexArray
    \/ ~OwnsRenderer /\ DropVertexArray
    \/ ~OwnsRenderer /\ NewDrawBuilder
    \/ ~OwnsRenderer /\ EndDrawBuilder
    \/ ~OwnsRenderer /\ SetProgram
    \/ ~OwnsRenderer /\ MapAttribLocation
    \/ ~OwnsRenderer /\ MapAttribName
    \/ ~OwnsRenderer /\ Draw
    \/ ~OwnsRenderer /\ SetPolygonMode
    \/ ~OwnsRenderer /\ SetCull
    \/ ~OwnsRenderer /\ SetDepthTest
    \/ ~OwnsRenderer /\ SetWinding
    \/ ~OwnsRenderer /\ SetBlend
    \/ ~OwnsRenderer /\ SetUniform

SpecBorrows == InitBorrows /\ [][NextBorrows]_vars


(* A renderer whose counter `lagging` reissues an id: its registry holds an  *)
(* entry under id 1 and the counter is back at its initial value. One mesh   *)
(* is registered, so that mesh instances can be.                             *)
Held(counter, lagging, value) ==
    IF counter = lagging THEN [id \in {1} |-> value] ELSE EmptyMap

InitCollision ==
    /\ ctx = [ContextInit EXCEPT !.vertex_array = 1]
    /\ status = "running"
    /\ calls = <<>>
    /\ vertex_arrays = EmptyMap
    /\ builder = None
    /\ chain = 0
    /\ draws = 0
    /\ last_call = <<>>
    /\ vbo = VertexBuffer_new
    /\ ibo = IndexBuffer_new
    /\ buffer_binding = [target \in {"Array", "ElementArray"} |->
                            IF target = "Array" THEN "vertex_1" ELSE "index_1"]
    /\ programs = [id \in {1} |-> DefaultProgram]
    /\ meshes = [id \in {1} |-> [vertex_array |-> MeshVertexArray(1)]]
    /\ \E lagging \in CounterNames \ {"shader_counter"} :
         /\ materials = Held("material_counter", lagging, MaterialInput)
         /\ textures = Held("texture_counter", lagging, TextureHandle(1))
         /\ mesh_instances =
               Held("mesh_instance_counter", lagging, MeshInstance(1, MaterialInput, None))
         /\ anchors = Held("anchor_counter", lagging, "anchor")
         /\ cameras = Held("camera_counter", lagging, Camera(None))
         /\ lights = Held("light_counter", lagging, DirectionalLight(None))
         /\ counters = [n \in CounterNames |->
                          IF n \in {"shader_counter", "mesh_counter"} \ {lagging}
                          THEN 1 ELSE 0]
         /\ ids_issued = [n \in CounterNames |->
                            IF n \in {"shader_counter", "mesh_counter", lagging}
                            THEN <<1>> ELSE <<>>]
    /\ passes = <<>>
    /\ camera_used = None
    /\ result = None
    /\ ProcessInit

SpecCollision == InitCollision /\ [][NextRegistry]_vars


(* The life of a renderer: the registry API, then the drop. *)
NextLife ==
    \/ NextRegistry
    \/ GlRender_drop

SpecLife == Init /\ [][NextLife]_vars

-----------------------------------------------------------------------------
(* A client that gives its mesh instances the materials the renderer        *)
(* returned: the default material, or the one build_material just built.    *)
default_material == MaterialInput

MaterialsReturned ==
    {default_material}
      \cup IF /\ IsSome(result)
              /\ Unwrap(result).method = "build_material"
              /\ Unwrap(result).value[1] = "Ok"
           THEN {Unwrap(result).value[2]}
           ELSE {}

register_mesh_instance_returned ==
    /\ counters["mesh_instance_counter"] < MaxInstances
    /\ SceneSize < MaxScene
    /\ \E mesh \in DOMAIN meshes, material \in MaterialsReturned :
         LET mesh_instance == MeshInstance(mesh, material, Some(1))
         IN /\ Register(mesh_instances, "mesh_instance_counter")
            /\ mesh_instances' =
                  Insert(mesh_instances, NextId("mesh_instance_counter"), mesh_instance)
    /\ calls' = <<>>
    /\ UNCHANGED <<ctx, materials, meshes, textures, anchors, cameras, lights, programs>>

NextMaterials ==
    \/ build_material
    \/ register_anchor
    \/ register_camera
    \/ register_mesh
    \/ register_mesh_instance_returned
    \/ GlRender_draw
    \/ GlRender_drop

SpecMaterials == Init /\ [][NextMaterials]_vars

(* The draws of the last frame made for a mesh instance, in order. *)
PassesOf(id) == SelectSeq(passes, LAMBDA p : p.instance = id)
(* The device draw call of a pass, and the state it was issued under. *)
DrawCallOf(p) == calls[p.call]
StateOf(p) == DrawCallOf(p).arg.state
(* The value a pass staged for a uniform of the default program. *)
StagedValue(p, name) == p.uniforms[UniformLocation(name)]
Anchored == {id \in DOMAIN mesh_instances : IsSome(mesh_instances[id].anchor)}
ValidAnchor(a) == IsSome(a) /\ Unwrap(a) \in DOMAIN anchors
PointLights == {id \in DOMAIN lights : lights[id].data.type = "Point"}
DirectionalLights == DOMAIN lights \ PointLights
(* draw() returned and rendered a camera. *)
Rendered == status = "running" /\ IsSome(camera_used)
(* The passes of the frame are draw calls of the frame, in the order issued. *)
PassesAreDrawCalls ==
    /\ Len(DrawCalls(calls)) = Len(passes)
    /\ \A k \in 1..Len(passes) :
         /\ passes[k].call \in 1..Len(calls)
         /\ IsDrawCall(DrawCallOf(passes[k]))
         /\ k > 1 => passes[k - 1].call < passes[k].call

(* C1: a draw() that returns after rendering a camera with a valid anchor    *)
(* issued exactly 1 + K draw calls for each mesh instance with an anchor, K  *)
(* the number of registered lights: the first the ambient draw, then one per *)
(* light, each of these under depth comparison LessThanOrEqual and blend     *)
(* (One, One); with no light, exactly one draw call per such instance.       *)
C1_DrawsPerInstance ==
    Rendered =>
      /\ PassesAreDrawCalls
      /\ Len(DrawCalls(calls)) = (1 + Cardinality(DOMAIN lights)) * Cardinality(Anchored)
      /\ \A id \in Anchored :
           LET ps == PassesOf(id)
           IN /\ Len(ps) = 1 + Cardinality(DOMAIN lights)
              /\ ps[1].light = 0
              /\ {ps[k].light : k \in 2..Len(ps)} = DOMAIN lights
              /\ \A k \in 2..Len(ps) :
                   /\ StateOf(ps[k]).server_depth_test
                   /\ StateOf(ps[k]).depth_test = "LessThanOrEqual"
                   /\ StateOf(ps[k]).blend = AdditiveBlend
C1_Witness ==
    /\ Rendered
    /\ Cardinality(DOMAIN lights) = 2
    /\ Anchored # {}
    /\ Len(passes) = 3

(* C2: the first draw of every mesh instance drawn in a frame is issued with *)
(* back-face culling enabled, depth comparison Less, the default blend and   *)
(* light_type staged as 0, and it precedes the per-light draws of the        *)
(* instance; also when the instance before it ended with additive passes.    *)
C2_AmbientPass ==
    \A k \in 1..Len(passes) :
      (\A j \in 1..(k - 1) : passes[j].instance # passes[k].instance) =>
        /\ passes[k].light = 0
        /\ StagedValue(passes[k], "light_type") = UniformValue("i32", 0)
        /\ StateOf(passes[k]).server_cull
        /\ StateOf(passes[k]).cull_mode = "Back"
        /\ StateOf(passes[k]).server_depth_test
        /\ StateOf(passes[k]).depth_test = "Less"
        /\ StateOf(passes[k]).blend = DefaultBlend
        /\ \A j \in (k + 1)..Len(passes) :
             passes[j].instance = passes[k].instance => passes[j].light # 0
C2_Witness ==
    /\ Len(passes) >= 3
    /\ passes[2].instance = passes[1].instance
    /\ StateOf(passes[2]).blend = AdditiveBlend
    /\ passes[3].instance # passes[1].instance

(* C3: a draw() that returns issued exactly one clear, first, and exactly    *)
(* one buffer swap, last, with every draw call in between; with no camera    *)
(* registered it issued the clear and the swap and nothing else.            *)
FrameBracketed ==
    /\ Len(calls) >= 2
    /\ calls[1].op = "clear"
    /\ calls[Len(calls)].op = "swap_buffers"
    /\ \A k \in 2..(Len(calls) - 1) : calls[k].op \notin {"clear", "swap_buffers"}
    /\ DOMAIN cameras = {} => calls = <<Call("clear", <<>>), Call("swap_buffers", <<>>)>>
C3_ClearThenSwap == [][GlRender_draw /\ status' = "running" => FrameBracketed']_vars
C3_Witness ==
    /\ status = "running"
    /\ FrameBracketed
    /\ DrawCalls(calls) # <<>>

(* The camera a pass was rendered from: the one its view, projection and    *)
(* camera position uniforms were computed for.                              *)
RenderedFrom(p, camera) ==
    /\ StagedValue(p, "view_transform") = GlMatrix(16, <<"view", camera>>)
    /\ StagedValue(p, "projection_transform") = GlMatrix(16, <<"projection", camera>>)
    /\ StagedValue(p, "camera_position") =
          UniformValue("f32x4", <<"camera_position", camera>>)
(* Ids are issued in ascending order and never withdrawn. *)
FirstRegistered(registry) == CHOOSE id \in DOMAIN registry : \A other \in DOMAIN registry : id <= other

(* C4: with cameras registered, draw() renders from exactly one of them,    *)
(* the one the camera registry yields first: every draw of the frame is      *)
(* computed for that camera. It is a registered camera, not necessarily the  *)
(* one registered first.                                                     *)
OneCamera ==
    /\ DOMAIN cameras # {} => IsSome(camera_used) /\ Unwrap(camera_used) \in DOMAIN cameras
    /\ \A k \in 1..Len(passes) : RenderedFrom(passes[k], Unwrap(camera_used))
C4_OneRegisteredCamera == [][GlRender_draw => OneCamera']_vars
C4_Witness ==
    /\ Cardinality(DOMAIN cameras) = 2
    /\ Rendered
    /\ passes # <<>>
(* C4 as stated: the camera rendered is the first one registered. *)
C4_FirstRegisteredCamera ==
    [][GlRender_draw /\ DOMAIN cameras # {} =>
         /\ camera_used' = Some(FirstRegistered(cameras))
         /\ \A k \in 1..Len(passes') : RenderedFrom(passes'[k], FirstRegistered(cameras))]_vars

(* Nothing but the mesh instances without an anchor is in the way of the    *)
(* frame: the camera rendered has a registered anchor, and so has every      *)
(* mesh instance with an anchor id and every point light.                   *)
OthersResolve ==
    /\ IsSome(camera_used)
    /\ ValidAnchor(cameras[Unwrap(camera_used)].anchor)
    /\ \A id \in Anchored : ValidAnchor(mesh_instances[id].anchor)
    /\ \A id \in PointLights : ValidAnchor(lights[id].anchor)

(* C5: a mesh instance without an anchor is skipped: no draw call is issued  *)
(* for it, it does not make the frame fail, and the mesh instances of the    *)
(* frame that have an anchor are still drawn.                                *)
Skipped ==
    /\ \A k \in 1..Len(passes) : passes[k].instance \in Anchored
    /\ OthersResolve =>
         /\ status = "running"
         /\ \A id \in Anchored : PassesOf(id) # <<>>
C5_UnanchoredSkipped == [][GlRender_draw => Skipped']_vars
C5_Witness ==
    /\ Rendered
    /\ Anchored # {}
    /\ DOMAIN mesh_instances \ Anchored # {}
    /\ passes # <<>>
    /\ passes[1].instance > FirstRegistered(mesh_instances)

(* What makes draw() fail fatally: the camera rendered has no anchor or an   *)
(* anchor id that is not registered; a mesh instance has an anchor id that   *)
(* is not registered; or a mesh instance is drawn and a point light has no   *)
(* anchor or an anchor id that is not registered.                           *)
FatalCause ==
    /\ IsSome(camera_used)
    /\ \/ ~ValidAnchor(cameras[Unwrap(camera_used)].anchor)
       \/ \E id \in Anchored : ~ValidAnchor(mesh_instances[id].anchor)
       \/ /\ Anchored # {}
          /\ \E id \in PointLights : ~ValidAnchor(lights[id].anchor)

(* C6: draw() fails fatally exactly in the cases of FatalCause, and a        *)
(* directional light is drawn without any anchor lookup: it is no cause of   *)
(* failure, and a frame that returns has drawn every mesh instance with it.  *)
FailsOnUnresolved ==
    /\ status = "panicked" <=> FatalCause
    /\ Rendered =>
         \A id \in Anchored : \A light \in DirectionalLights :
            \E k \in 1..Len(passes) :
               /\ passes[k].instance = id
               /\ passes[k].light = light
               /\ StagedValue(passes[k], "light_type") = UniformValue("i32", 2)
C6_FatalWhenUnresolved == [][GlRender_draw => FailsOnUnresolved']_vars
C6_Witness ==
    /\ status = "panicked"
    /\ ValidAnchor(cameras[Unwrap(camera_used)].anchor)
    /\ \A id \in Anchored : ValidAnchor(mesh_instances[id].anchor)
    /\ Len(passes) >= 2
    /\ passes[2].light \in DirectionalLights

(* The texture properties of the material a pass was drawn with. *)
TextureProperties(p) ==
    LET properties == mesh_instances[p.instance].material.properties
    IN {n \in DOMAIN properties : properties[n].type = "Texture"}
TextureIdOf(p, n) == mesh_instances[p.instance].material.properties[n].value
(* The device calls of a pass: those after the draw call before it. *)
CallsOf(k) ==
    SubSeq(calls, IF k = 1 THEN 1 ELSE passes[k - 1].call + 1, passes[k].call)
Binds(cs, handle) == \E i \in 1..Len(cs) : cs[i] = Call("bind_texture", handle)

(* C7: a texture property whose texture id is not registered is staged with  *)
(* the default texture, the one created for the mesh instance and shared by  *)
(* its texture properties, and the draw is issued; one whose id is           *)
(* registered is staged with the registered texture.                        *)
C7_TextureFallback ==
    \A k \in 1..Len(passes) : \A n \in TextureProperties(passes[k]) :
       LET id == TextureIdOf(passes[k], n)
           handle == IF id \in DOMAIN textures THEN textures[id]
                     ELSE EmptyTexture(passes[k].instance)
       IN /\ StagedValue(passes[k], n) = GlTexture(handle)
          /\ Binds(CallsOf(k), handle)
          /\ IsDrawCall(DrawCallOf(passes[k]))
C7_Witness ==
    /\ Rendered
    /\ DOMAIN textures = {}
    /\ passes # <<>>
    /\ TextureProperties(passes[1]) # {}

-----------------------------------------------------------------------------
(* Properties of DrawBuilder::draw().                                       *)

UniformCalls ==
    {ScalarUniformCall[kind] : kind \in DOMAIN ScalarUniformCall}
      \cup {"uniform_matrix_f32x4v", "uniform_matrix_f32x3v"}
(* The stage of draw() a device call belongs to. *)
Stage(call) ==
    CASE call.op = "polygon_mode" -> 1
      [] call.op = "use_program" -> 2
      [] call.op \in {"enable_server_cull", "cull_mode", "winding_order"} -> 3
      [] call.op \in {"enable_server_depth_test", "depth_test"} -> 4
      [] call.op = "blend" -> 5
      [] call.op \in UniformCalls \cup {"set_active_texture", "bind_texture"} -> 6
      [] call.op = "bind_vertex_array" -> 7
      [] IsDrawCall(call) -> 8
      [] OTHER -> 0
InStage(cs, n) == SelectSeq(cs, LAMBDA call : Stage(call) = n)
(* The locations of the uniforms applied, in the order applied. *)
AppliedLocations(cs) ==
    LET applied == SelectSeq(cs, LAMBDA call : call.op \in UniformCalls)
    IN [k \in 1..Len(applied) |-> applied[k].arg[1]]

(* C8: the device calls of a draw() come in the order polygon mode, program, *)
(* cull-face state, depth-test state, blend factors, staged uniforms, vertex *)
(* array binding, draw call; a draw() that returns made each of them, every  *)
(* staged uniform applied once, and a draw call is never issued unless all   *)
(* the stages before it were.                                               *)
DrawInOrder ==
    /\ \A i, j \in 1..Len(calls) : i < j => Stage(calls[i]) <= Stage(calls[j])
    /\ \A i \in 1..Len(calls) : Stage(calls[i]) # 0
    /\ DrawCalls(calls) # <<>> \/ status = "running" =>
         /\ \A n \in {1, 2, 5, 7, 8} : Len(InStage(calls, n)) = 1
         /\ InStage(calls, 3) # <<>> /\ InStage(calls, 4) # <<>>
         /\ Len(AppliedLocations(calls)) = Cardinality(DOMAIN Unwrap(builder).uniforms)
         /\ {AppliedLocations(calls)[k] : k \in 1..Len(AppliedLocations(calls))}
               = DOMAIN Unwrap(builder).uniforms
C8_DrawOrder == [][Draw => DrawInOrder']_vars
C8_Witness ==
    /\ status = "running"
    /\ DrawCalls(calls) # <<>>
    /\ Cardinality(DOMAIN Unwrap(builder).uniforms) = 2
    /\ \E location \in DOMAIN Unwrap(builder).uniforms :
          Unwrap(builder).uniforms[location].kind = "Texture"

(* C9: a draw() that returns issued exactly one device draw call: indexed,   *)
(* with the length of the index buffer as its count, when the vertex array   *)
(* has an index buffer, and otherwise non-indexed with the element count     *)
(* computed for the vertex buffer. A draw() that fails issued none.          *)
OneDrawCall ==
    LET issued == DrawCalls(calls)
        vertex_array == Unwrap(builder).vertex_array
    IN /\ status = "running" =>
            /\ Len(issued) = 1
            /\ IF IsSome(vertex_array.index_buffer)
               THEN /\ issued[1].op = "draw_elements"
                    /\ issued[1].arg.count = Unwrap(vertex_array.index_buffer).len
               ELSE /\ issued[1].op = "draw_arrays"
                    /\ issued[1].arg.count = vertex_array.vertex_buffer.element_len
       /\ status = "panicked" => issued = <<>>
C9_OneDrawCall == [][Draw => OneDrawCall']_vars
C9_Witness ==
    /\ status = "running"
    /\ draws = 2
    /\ DrawCalls(calls) = <<Call("draw_arrays", [mode |-> "Triangles", count |-> 3, state |-> ctx])>>

(* C10: the fixed-function state a draw call is issued under is that of the  *)
(* builder that issued it, whatever was drawn before: culling enabled, with  *)
(* the builder's face and winding order, exactly when cull() was called on   *)
(* it; depth testing enabled, with the builder's comparison, exactly when    *)
(* depth_test() was called; the builder's polygon mode, or the default; the  *)
(* builder's program, or none.                                              *)
StateOfBuilder ==
    LET b == Unwrap(builder)
    IN \A k \in 1..Len(calls) : IsDrawCall(calls[k]) =>
         LET state == calls[k].arg.state
         IN /\ state.server_cull = IsSome(b.cull)
            /\ IsSome(b.cull) =>
                 /\ state.cull_mode = Unwrap(b.cull)
                 /\ state.winding_order = b.winding_order
            /\ state.server_depth_test = IsSome(b.depth_test)
            /\ IsSome(b.depth_test) => state.depth_test = Unwrap(b.depth_test)
            /\ state.polygon_mode =
                  IF IsSome(b.polygon_mode) THEN Unwrap(b.polygon_mode)
                  ELSE DefaultPolygonMode
            /\ state.program =
                  IF IsSome(b.program) THEN Some(Unwrap(b.program).id) ELSE None
C10_StateFromBuilder == [][Draw => StateOfBuilder']_vars
C10_Witness ==
    /\ status = "running"
    /\ draws = 2
    /\ DrawCalls(calls) # <<>>
    /\ ~ctx.server_cull /\ ctx.cull_mode = "Front"
    /\ ~ctx.server_depth_test /\ ctx.depth_test = "LessThanOrEqual"
    /\ ctx.polygon_mode = DefaultPolygonMode

(* The texture units selected by the device calls `cs`, in the order selected. *)
UnitsSelected(cs) ==
    LET selected == SelectSeq(cs, LAMBDA call : call.op = "set_active_texture")
    IN [k \in 1..Len(selected) |-> selected[k].arg]
(* The locations staged with a texture. *)
TextureLocations(b) == {l \in DOMAIN b.uniforms : b.uniforms[l].kind = "Texture"}
(* The locations a texture unit was written to by the device calls `cs`. *)
UnitWrites(cs, location) ==
    {i \in 1..Len(cs) : cs[i].op = "uniform_i32x1" /\ cs[i].arg[1] = location}

(* C11: within every draw() the texture units selected are 0, 1, ... in     *)
(* order, counted from 0 in every draw(); each selection is followed by the *)
(* binding                                                                  *)
(* of the texture staged for one texture-typed location and by the write of  *)
(* that unit to that location; a draw() that returns has selected as many    *)
(* units as texture-typed uniforms are staged, each written once, whatever   *)
(* other uniforms are staged.                                               *)
TexturesOnUnits ==
    LET b == Unwrap(builder)
        units == UnitsSelected(calls)
    IN /\ \A k \in 1..Len(units) : units[k] = k - 1
       /\ Len(units) <= Cardinality(TextureLocations(b))
       /\ \A i \in 1..Len(calls) :
             /\ calls[i].op = "set_active_texture" =>
                   /\ i + 2 <= Len(calls)
                   /\ calls[i + 1].op = "bind_texture"
                   /\ calls[i + 2].op = "uniform_i32x1"
                   /\ calls[i + 2].arg[2] = calls[i].arg
                   /\ calls[i + 2].arg[1] \in TextureLocations(b)
                   /\ b.uniforms[calls[i + 2].arg[1]] = GlTexture(calls[i + 1].arg)
             /\ calls[i].op = "bind_texture" =>
                   i > 1 /\ calls[i - 1].op = "set_active_texture"
       /\ status = "running" =>
             /\ Len(units) = Cardinality(TextureLocations(b))
             /\ \A l \in TextureLocations(b) : Cardinality(UnitWrites(calls, l)) = 1
             /\ \A l \in DOMAIN b.uniforms \ TextureLocations(b) : UnitWrites(calls, l) = {}
C11_TextureUnits == last_call = <<"draw">> => TexturesOnUnits
C11_Witness ==
    /\ status = "running"
    /\ draws = 2
    /\ UnitsSelected(calls) = <<0, 1>>
    /\ \E i, j \in 1..Len(calls) :
          /\ calls[i].op = "bind_texture" /\ calls[j].op = "bind_texture"
          /\ calls[i].arg # calls[j].arg

-----------------------------------------------------------------------------
(* Properties of the DrawBuilder configuration methods.                     *)

(* The program set on the builder in scope. *)
HasProgram == IsSome(builder) /\ IsSome(Unwrap(builder).program)
ProgramOf(b) == Unwrap(b.program)
(* The context is as it was, and no device call was issued. *)
ContextUntouched == ctx' = ctx /\ calls' = <<>>

(* C12: uniform(name, value) on a builder with a program that has no        *)
(* uniform called name returns, leaves every field of the builder as it     *)
(* was, the staged uniforms included, and issues no device call.            *)
C12_UnknownUniformIgnored ==
    [][ SetUniform /\ HasProgram
          /\ last_call'[2] \notin DOMAIN ProgramOf(Unwrap(builder)).uniforms
        => builder' = builder /\ ContextUntouched /\ status' = "running" ]_vars
C12_Witness ==
    /\ status = "running"
    /\ last_call # <<>> /\ last_call[1] = "uniform"
    /\ last_call[2] \notin DOMAIN ProgramOf(Unwrap(builder)).uniforms
    /\ Unwrap(builder).uniforms # EmptyMap

(* The device calls that map the buffer attribute laid out as `layout` to   *)
(* `location`, on the vertex array of the builder `b`.                      *)
AttribMapped(b, location, layout) ==
    << Call("bind_vertex_array", b.vertex_array.vertex_array_name),
       Call("enable_vertex_attrib_array", location),
       Call("vertex_attrib_pointer",
            [ location |-> location, elements |-> layout.elements,
              stride |-> 4 * layout.stride, offset |-> 4 * layout.offset ]) >>
BufferAttribs(b) == b.vertex_array.vertex_buffer.attribs

(* C13: map_attrib_name(buffer_attribute, program_attribute) on a builder   *)
(* with a program returns and leaves the builder as it was. When the        *)
(* program has no input of that name or the vertex buffer no attribute of   *)
(* that name, no device call is issued and the context is as it was;        *)
(* otherwise the vertex array is bound and the input's location is enabled  *)
(* and pointed at the attribute.                                            *)
C13_MapAttribNameSilent ==
    [][ MapAttribName /\ HasProgram =>
          LET b == Unwrap(builder)
              name == last_call'[2]
              input == last_call'[3]
          IN /\ builder' = builder
             /\ status' = "running"
             /\ IF input \in DOMAIN ProgramOf(b).attribs /\ name \in DOMAIN BufferAttribs(b)
                THEN /\ calls' = AttribMapped(b, ProgramOf(b).attribs[input],
                                              BufferAttribs(b)[name])
                     /\ ctx' = [ctx EXCEPT !.vertex_array = b.vertex_array.vertex_array_name]
                ELSE ContextUntouched ]_vars
C13_Witness ==
    /\ status = "running"
    /\ last_call # <<>> /\ last_call[1] = "map_attrib_name"
    /\ last_call[3] \in DOMAIN ProgramOf(Unwrap(builder)).attribs
    /\ last_call[2] \notin DOMAIN BufferAttribs(Unwrap(builder))
    /\ calls = <<>>
    /\ ctx.vertex_array # Unwrap(builder).vertex_array.vertex_array_name

(* C14: map_attrib_location(name, location) fails fatally when the vertex   *)
(* buffer has no attribute called name, with no device call issued and the  *)
(* context as it was; when the attribute exists it returns, having bound    *)
(* the vertex array and enabled and pointed the location at the attribute's *)
(* elements, stride and offset.                                            *)
C14_MapAttribLocationFatal ==
    [][ MapAttribLocation =>
          LET b == Unwrap(builder)
              name == last_call'[2]
              location == last_call'[3]
          IN /\ builder' = builder
             /\ IF name \in DOMAIN BufferAttribs(b)
                THEN /\ status' = "running"
                     /\ calls' = AttribMapped(b, location, BufferAttribs(b)[name])
                     /\ ctx' = [ctx EXCEPT !.vertex_array = b.vertex_array.vertex_array_name]
                ELSE /\ status' = "panicked"
                     /\ ContextUntouched ]_vars
C14_Witness ==
    /\ status = "panicked"
    /\ last_call # <<>> /\ last_call[1] = "map_attrib_location"
    /\ last_call[2] \notin DOMAIN BufferAttribs(Unwrap(builder))
    /\ calls = <<>>
    /\ ctx.vertex_array # Unwrap(builder).vertex_array.vertex_array_name

(* C15: uniform() and map_attrib_name() on a builder on which no program    *)
(* was set fail fatally whatever the names are, those that a program or a   *)
(* vertex buffer would have had ignored included.                           *)
C15_NoProgramFatal ==
    [][ (SetUniform \/ MapAttribName) /\ ~HasProgram => status' = "panicked" ]_vars
C15_Witness ==
    /\ status = "panicked"
    /\ ~HasProgram
    /\ last_call # <<>> /\ last_call[1] = "map_attrib_name"
    /\ last_call[2] \notin DOMAIN BufferAttribs(Unwrap(builder))

(* The device call `call` sets the uniform at `location`. *)
Applies(call, location) == call.op \in UniformCalls /\ call.arg[1] = location

(* C16: a uniform() whose name resolves to a location stages its value at   *)
(* that location, in place of any value staged there before, and leaves the *)
(* values at the other locations as they were; no other method changes the  *)
(* staged uniforms of a builder; so each location holds the value of the    *)
(* most recent call that resolved to it. A draw() that returns has applied  *)
(* each staged location exactly once.                                       *)
StagedLatest ==
    /\ SetUniform /\ HasProgram
          /\ last_call'[2] \in DOMAIN ProgramOf(Unwrap(builder)).uniforms =>
          LET staged == Unwrap(builder).uniforms
              location == ProgramOf(Unwrap(builder)).uniforms[last_call'[2]]
          IN /\ status' = "running"
             /\ builder' = Some([Unwrap(builder) EXCEPT !.uniforms =
                    [ l \in DOMAIN staged \cup {location} |->
                        IF l = location THEN last_call'[3] ELSE staged[l] ]])
    /\ IsSome(builder) /\ ~SetUniform /\ ~NewDrawBuilder =>
          Unwrap(builder').uniforms = Unwrap(builder).uniforms
    /\ Draw /\ status' = "running" =>
          \A location \in DOMAIN Unwrap(builder).uniforms :
             Cardinality({i \in 1..Len(calls') : Applies(calls'[i], location)}) = 1
C16_StagedLatest == [][StagedLatest]_vars
C16_Witness ==
    /\ status = "running"
    /\ chain = 3
    /\ last_call # <<>> /\ last_call[1] = "uniform"
    /\ HasProgram
    /\ last_call[2] \in DOMAIN ProgramOf(Unwrap(builder)).uniforms
    /\ DOMAIN Unwrap(builder).uniforms = {ProgramOf(Unwrap(builder)).uniforms[last_call[2]]}
    /\ Unwrap(builder).uniforms[ProgramOf(Unwrap(builder)).uniforms[last_call[2]]] = last_call[3]

(* The builder field each configuration method writes. *)
FieldOf ==
    [ method \in {"polygon_mode", "program", "cull", "depth_test", "winding", "blend",
                  "uniform"} |->
        CASE method = "winding" -> "winding_order"
          [] method = "uniform" -> "uniforms"
          [] OTHER -> method ]
ConfigurationStep ==
    SetPolygonMode \/ SetProgram \/ SetCull \/ SetDepthTest \/ SetWinding \/ SetBlend
      \/ SetUniform
(* The builder in scope is as it was in every field but `field`. *)
OnlyField(field) ==
    \A other \in DOMAIN Unwrap(builder) \ {field} :
       Unwrap(builder')[other] = Unwrap(builder)[other]

(* C17: polygon_mode, program, cull, depth_test, winding, blend and uniform *)
(* write the builder field of their own, with their argument, and no other  *)
(* field; they issue no device call and leave the context as it was. Of the *)
(* builder's methods only map_attrib_location, map_attrib_name and draw     *)
(* issue device calls.                                                      *)
ConfiguresOwnField ==
    /\ ConfigurationStep => ContextUntouched /\ OnlyField(FieldOf[last_call'[1]])
    /\ SetPolygonMode => Unwrap(builder').polygon_mode = Some(last_call'[2])
    /\ SetProgram /\ status' = "running" => Unwrap(builder').program = Some(last_call'[2])
    /\ SetCull => Unwrap(builder').cull = Some(last_call'[2])
    /\ SetDepthTest => Unwrap(builder').depth_test = Some(last_call'[2])
    /\ SetWinding => Unwrap(builder').winding_order = last_call'[2]
    /\ SetBlend => Unwrap(builder').blend = <<last_call'[2], last_call'[3]>>
    /\ calls' # <<>> =>
          last_call'[1] \in {"map_attrib_location", "map_attrib_name", "draw"}
C17_ConfigurationOnly == [][ConfiguresOwnField]_vars
C17_Witness ==
    /\ status = "running"
    /\ draws = 1
    /\ last_call # <<>> /\ last_call[1] = "cull"
    /\ Unwrap(builder).cull = Some(last_call[2])
    /\ Unwrap(builder).winding_order # DefaultWindingOrder
    /\ ~ctx.server_cull
    /\ calls = <<>>

(* The locations staged with a matrix of `len` values, and those staged     *)
(* with a matrix of a length apply() does not support.                      *)
MatrixLocations(b, len) ==
    {l \in DOMAIN b.uniforms : b.uniforms[l].kind = "Matrix" /\ b.uniforms[l].val.len = len}
UnsupportedMatrices(b) ==
    {l \in DOMAIN b.uniforms :
        b.uniforms[l].kind = "Matrix" /\ b.uniforms[l].val.len \notin {9, 16}}
Issued(cs, call) == \E i \in 1..Len(cs) : cs[i] = call

(* C18: uniform() stages a matrix of any length and returns. A draw() with  *)
(* a matrix staged whose length is neither 9 nor 16 fails fatally and no    *)
(* draw call is issued; a draw() without one returns, a matrix of 16 values *)
(* applied as a 4x4 matrix and one of 9 values as a 3x3 matrix.             *)
UnsupportedMatrixFatal ==
    /\ last_call # <<>> /\ last_call[1] = "uniform" /\ HasProgram
          /\ last_call[3].kind = "Matrix"
          /\ last_call[2] \in DOMAIN ProgramOf(Unwrap(builder)).uniforms =>
          /\ status = "running"
          /\ Unwrap(builder).uniforms[ProgramOf(Unwrap(builder)).uniforms[last_call[2]]]
                = last_call[3]
    /\ last_call = <<"draw">> =>
          LET b == Unwrap(builder)
          IN IF UnsupportedMatrices(b) # {}
             THEN status = "panicked" /\ DrawCalls(calls) = <<>>
             ELSE /\ status = "running"
                  /\ \A l \in MatrixLocations(b, 16) :
                        Issued(calls, Call("uniform_matrix_f32x4v",
                                           <<l, b.uniforms[l].val.data>>))
                  /\ \A l \in MatrixLocations(b, 9) :
                        Issued(calls, Call("uniform_matrix_f32x3v",
                                           <<l, b.uniforms[l].val.data>>))
C18_UnsupportedMatrix == UnsupportedMatrixFatal
C18_Witness ==
    /\ status = "panicked"
    /\ last_call = <<"draw">>
    /\ UnsupportedMatrices(Unwrap(builder)) # {}
    /\ \E i \in 1..Len(calls) : calls[i].op \in UniformCalls
    /\ DrawCalls(calls) = <<>>

-----------------------------------------------------------------------------
(* Properties of VertexBuffer and IndexBuffer.                              *)

(* Integer division that truncates towards zero, for a positive divisor. *)
TruncatingDiv(a, b) == IF a >= 0 THEN a \div b ELSE -((-a) \div b)
(* set_attrib_f32 has returned and set the element count to                 *)
(* (L - o) / e + s, for the length L of the buffer and the layout given.    *)
ElementCountSet ==
    LET layout == last_call'[3]
    IN /\ status' = "running"
       /\ vbo'.element_len =
             TruncatingDiv(vbo.len - layout.offset, layout.elements) + layout.stride

(* C19: set_attrib_f32 on a buffer of length L with a layout of elements e, *)
(* offset o and stride s sets the element count to (L - o) / e + s, the     *)
(* division truncating, for every L, o, s and every e but 0.                *)
C19_ElementCount ==
    [][ SetAttribF32 /\ last_call'[3].elements > 0 => ElementCountSet ]_vars
(* C19, where the offset does not exceed the length of the buffer: the     *)
(* element count is (L - o) / e + s, whether e divides L - o or not.        *)
C19_ElementCountInRange ==
    [][ SetAttribF32 /\ last_call'[3].elements > 0 /\ last_call'[3].offset <= vbo.len
        => ElementCountSet ]_vars
C19_Witness ==
    /\ last_call # <<>> /\ last_call[1] = "set_attrib_f32"
    /\ last_call[3].elements > 0
    /\ last_call[3].offset > vbo.len
    /\ \/ status = "panicked"
       \/ vbo.element_len > vbo.len + last_call[3].stride

(* C20: an upload binds the buffer to its target, transfers four bytes for  *)
(* every value of the array, and binds no buffer to the target, which is    *)
(* so left with none bound whatever was bound before; the other target is   *)
(* as it was. The upload sets the stored length to the length of the array  *)
(* and nothing else changes it, so it is that of the most recent upload.    *)
Uploaded ==
    /\ SetDataF32 =>
          /\ status' = "running"
          /\ calls' = << Call("bind_buffer", <<"Array", "vertex">>),
                         Call("buffer_data", <<"Array", 4 * last_call'[2]>>),
                         Call("bind_buffer", <<"Array", "null">>) >>
          /\ buffer_binding' = [buffer_binding EXCEPT !["Array"] = "null"]
          /\ vbo'.len = last_call'[2]
    /\ SetDataU32 =>
          /\ status' = "running"
          /\ calls' = << Call("bind_buffer", <<"ElementArray", "index">>),
                         Call("buffer_data", <<"ElementArray", 4 * last_call'[2]>>),
                         Call("bind_buffer", <<"ElementArray", "null">>) >>
          /\ buffer_binding' = [buffer_binding EXCEPT !["ElementArray"] = "null"]
          /\ ibo'.len = last_call'[2]
    /\ ~SetDataF32 => vbo'.len = vbo.len
    /\ ~SetDataU32 => ibo'.len = ibo.len
C20_UploadUnbinds == [][Uploaded]_vars
C20_Witness ==
    /\ vertex_arrays # EmptyMap
    /\ last_call = <<"set_data_f32", 7>>
    /\ vbo.len = 7
    /\ vbo.element_len = 3
    /\ buffer_binding["Array"] = "null"
    /\ buffer_binding["ElementArray"] = "index_1"

-----------------------------------------------------------------------------
(* Properties of the registries.                                            *)

(* The registry an id counter issues ids for. *)
RegistryOf(counter) ==
    CASE counter = "material_counter" -> materials
      [] counter = "mesh_counter" -> meshes
      [] counter = "texture_counter" -> textures
      [] counter = "mesh_instance_counter" -> mesh_instances
      [] counter = "anchor_counter" -> anchors
      [] counter = "camera_counter" -> cameras
      [] counter = "light_counter" -> lights
      [] counter = "shader_counter" -> programs

StrictlyIncreasing(ids) == \A i, j \in 1..Len(ids) : i < j => ids[i] < ids[j]

(* C21: in each of the eight registries the ids returned by successive      *)
(* registrations are strictly increasing, hence pairwise distinct and never  *)
(* returned twice, and after N registrations the registry holds N entries,   *)
(* one under each of the N ids.                                              *)
C21_FreshIds ==
    \A counter \in CounterNames :
        LET ids == ids_issued[counter]
        IN /\ StrictlyIncreasing(ids)
           /\ DOMAIN RegistryOf(counter) = {ids[i] : i \in 1..Len(ids)}
           /\ Cardinality(DOMAIN RegistryOf(counter)) = Len(ids)
C21_Witness ==
    /\ Len(ids_issued["material_counter"]) = 2
    /\ Len(ids_issued["shader_counter"]) = 2

(* A registration into the registry of `counter` under an id it holds. *)
Collides(counter) ==
    /\ counters'[counter] # counters[counter]
    /\ counters'[counter] \in DOMAIN RegistryOf(counter)

RegisterCounters == CounterNames \ {"shader_counter"}

LookupCounter ==
    [ method \in {"get_material", "get_mesh_instance", "get_anchor", "get_camera",
                  "get_light"} |->
        CASE method = "get_material" -> "material_counter"
          [] method = "get_mesh_instance" -> "mesh_instance_counter"
          [] method = "get_anchor" -> "anchor_counter"
          [] method = "get_camera" -> "camera_counter"
          [] method = "get_light" -> "light_counter" ]

WasIssued(counter, id) == \E i \in 1..Len(ids_issued[counter]) : ids_issued[counter][i] = id

(* The lookup just made returned the entry under the id if a registration   *)
(* returned that id, and nothing otherwise; it did not fail.                 *)
LookupReturned ==
    IsSome(result) /\ Unwrap(result).method \in DOMAIN LookupCounter =>
        LET r == Unwrap(result)
            counter == LookupCounter[r.method]
        IN /\ status = "running"
           /\ r.value = IF WasIssued(counter, r.argument)
                        THEN Some(RegistryOf(counter)[r.argument])
                        ELSE None

(* No step removes or replaces an entry of a registry. *)
EntriesKept ==
    \A counter \in CounterNames :
        \A id \in DOMAIN RegistryOf(counter) :
            /\ id \in DOMAIN RegistryOf(counter)'
            /\ RegistryOf(counter)'[id] = RegistryOf(counter)[id]

(* C23: get_material, get_mesh_instance, get_anchor, get_camera and         *)
(* get_light return the object registered under the id for every id a       *)
(* registration returned (the entry, which no step removes or replaces), and *)
(* return nothing, without failing, for an id no registration returned.      *)
C23_Lookup == [](LookupReturned) /\ [][EntriesKept]_vars
C23_Witness ==
    /\ IsSome(result)
    /\ Unwrap(result).method = "get_material"
    /\ Unwrap(result).argument = 2
    /\ Unwrap(result).value = Some(MaterialInput)
    /\ materials[1] # MaterialInput

-----------------------------------------------------------------------------
(* Properties of build_material.                                            *)

(* The build_material call just made: its source and what it returned. *)
Built_material == IsSome(result) /\ Unwrap(result).method = "build_material"
SourceBuilt == Unwrap(result).argument
BuildResult == Unwrap(result).value
HasStage(source, stage) ==
    \E i \in 1..Len(source.programs) : source.programs[i].stage = stage

(* C24: a build_material whose source has no fragment-stage source returns  *)
(* the build error; one whose source has no vertex-stage source compiles    *)
(* the default vertex body as its vertex stage (and can succeed, as the     *)
(* witness shows).                                                           *)
C24_FragmentMandatory ==
    Built_material =>
        /\ ~HasStage(SourceBuilt, "Fragment") => BuildResult = BuildMaterialError
        /\ ~HasStage(SourceBuilt, "Vertex") =>
              /\ calls[1].op = "compile_shader"
              /\ calls[1].arg.stage = "Vertex"
              /\ calls[1].arg.main = <<"replaced", DEFAULT_VERT_MAIN>>
C24_Witness ==
    /\ Built_material
    /\ ~HasStage(SourceBuilt, "Vertex")
    /\ BuildResult[1] = "Ok"

(* The default value of each property type. *)
TypeDefault ==
    [ property_type \in {"Color", "Texture2d", "f32", "Vector3"} |->
        CASE property_type = "Color" -> MaterialProperty("Color", "Color::default()")
          [] property_type = "Texture2d" -> MaterialProperty("Texture", 0)
          [] property_type = "f32" -> MaterialProperty("f32", "f32::default()")
          [] property_type = "Vector3" -> MaterialProperty("Vector3", "Vector3::default()") ]

(* The step is a build_material that returned a Material. *)
MaterialBuilt == Built_material' /\ BuildResult'[1] = "Ok"

(* C25: a build_material that succeeds advances the shader counter by one,  *)
(* registers exactly one new program, under the id the counter issued, and  *)
(* returns a Material that references that id and holds exactly the         *)
(* declared properties, each at the default value of its type whatever the   *)
(* source says of its value.                                                 *)
C25_SuccessfulBuild ==
    [][MaterialBuilt =>
          LET material == BuildResult'[2]
              declared == SourceBuilt'.properties
          IN /\ counters' = [counters EXCEPT !["shader_counter"] = @ + 1]
             /\ material.shader = counters'["shader_counter"]
             /\ material.shader \notin DOMAIN programs
             /\ DOMAIN programs' = DOMAIN programs \cup {material.shader}
             /\ \A id \in DOMAIN programs : programs'[id] = programs[id]
             /\ DOMAIN material.properties = {declared[i].name : i \in 1..Len(declared)}
             /\ \A i \in 1..Len(declared) :
                   material.properties[declared[i].name]
                     = TypeDefault[declared[i].property_type]]_vars
C25_Witness ==
    /\ Built_material
    /\ BuildResult[1] = "Ok"
    /\ Len(SourceBuilt.properties) = 4
    /\ Cardinality(DOMAIN programs) = 3

(* The sources whose build fails: a vertex or fragment stage that does not  *)
(* compile, no fragment stage, or stages that do not link.                   *)
BuildFails(source) ==
    \/ \E i \in 1..Len(source.programs) :
          source.programs[i].source \in BrokenSources \cup UnlinkableSources
    \/ ~HasStage(source, "Fragment")

(* C26: a build_material that fails (a stage does not compile, there is no  *)
(* fragment source, the stages do not link) returns the one build error and  *)
(* no Material, does not fail fatally, and leaves the program registry and   *)
(* the shader counter as they were.                                          *)
C26_FailedBuild ==
    [][Built_material' /\ BuildFails(SourceBuilt') =>
          /\ BuildResult' = BuildMaterialError
          /\ status' = "running"
          /\ programs' = programs
          /\ counters' = counters]_vars
C26_Witness ==
    /\ Built_material
    /\ BuildResult = BuildMaterialError
    /\ \E i \in 1..Len(SourceBuilt.programs) :
          SourceBuilt.programs[i].source \in UnlinkableSources
    /\ Cardinality(DOMAIN programs) = 2

(* The device type each property type is declared with. *)
GlslType ==
    [ property_type \in {"Color", "Texture2d", "f32", "Vector3"} |->
        CASE property_type = "Color" -> "vec4"
          [] property_type = "Texture2d" -> "sampler2D"
          [] property_type = "f32" -> "float"
          [] property_type = "Vector3" -> "vec3" ]

(* The stage sources the build just made handed to the compiler. *)
StagesSubmitted ==
    {calls[i].arg : i \in {k \in 1..Len(calls) : calls[k].op = "compile_shader"}}

(* C27: the declarations build_material generates for a property list are   *)
(* one `uniform <type> <name>;` per property, in list order, with Color as  *)
(* vec4, Texture2d as sampler2D, f32 as float and Vector3 as vec3, and the   *)
(* same block is part of the vertex stage source and of the fragment stage   *)
(* source.                                                                   *)
C27_UniformDeclarations ==
    Built_material =>
        LET declared == SourceBuilt.properties
        IN \A text \in StagesSubmitted :
              /\ Len(text.uniform_declarations) = Len(declared)
              /\ \A i \in 1..Len(declared) :
                    text.uniform_declarations[i]
                      = <<"uniform ", GlslType[declared[i].property_type], " ",
                          declared[i].name, ";\n">>
C27_Witness ==
    /\ Built_material
    /\ Len(SourceBuilt.properties) = 4
    /\ {text.stage : text \in StagesSubmitted} = {"Vertex", "Fragment"}

-----------------------------------------------------------------------------
(* Properties of the drops.                                                 *)

Times(cs, call) == Cardinality({i \in 1..Len(cs) : cs[i] = call})

(* The device handles the renderer holds: for each mesh its vertex array,   *)
(* vertex buffer and index buffer, each texture, each program.              *)
HandlesHeld ==
    UNION { { Call("delete_vertex_arrays", meshes[id].vertex_array.vertex_array_name),
              Call("delete_buffers",
                   vertex_buffer_name(meshes[id].vertex_array.vertex_array_name)),
              Call("delete_buffers",
                   index_buffer_name(meshes[id].vertex_array.vertex_array_name)) } :
            id \in DOMAIN meshes }
      \cup {Call("delete_textures", textures[id]) : id \in DOMAIN textures}
      \cup {Call("delete_program", programs[id].id) : id \in DOMAIN programs}

(* C28: the drop of the renderer releases every handle it holds (the vertex *)
(* array, vertex buffer and index buffer of every mesh, every texture,      *)
(* every program) exactly once, releases nothing else, and releases the     *)
(* device context after all of them.                                         *)
C28_ReleasedBeforeContext ==
    [][status' = "dropped" /\ status = "running" =>
          /\ \A release \in HandlesHeld : Times(calls', release) = 1
          /\ Len(calls') = Cardinality(HandlesHeld) + 1
          /\ calls'[Len(calls')] = Call("destroy_context", ctx.id)]_vars
C28_Witness ==
    /\ status = "dropped"
    /\ Len(calls) = 7
    /\ Times(calls, Call("delete_textures", TextureHandle(1))) = 1
    /\ Times(calls, Call("delete_buffers", "index_1")) = 1

(* The context's bound vertex array is none or one that is not dropped. *)
BoundArrayAlive == ctx.vertex_array = 0 \/ ctx.vertex_array \in AliveArrays

(* A creation generated the array, bound it and bound its buffers to it. *)
CreatedBound ==
    CreateVertexArray =>
        LET name == last_call'[2]
            buffers == <<Call("bind_buffer", <<"Array", vertex_buffer_name(name)>>)>>
                         \o IF IsSome(vertex_arrays'[name].index_buffer)
                            THEN <<Call("bind_buffer",
                                        <<"ElementArray", index_buffer_name(name)>>)>>
                            ELSE <<>>
        IN /\ name \notin DOMAIN vertex_arrays
           /\ ctx'.vertex_array = name
           /\ calls' = << Call("gen_vertex_arrays", name),
                          Call("bind_vertex_array", name) >> \o buffers

(* A drop deleted the array, took it out of the bind state, and then        *)
(* deleted its vertex buffer and its index buffer, each once.               *)
DroppedOnce ==
    DropVertexArray =>
        LET name == last_call'[2]
        IN /\ name \in AliveArrays
           /\ name \notin AliveArrays'
           /\ ctx'.vertex_array # name
           /\ calls' = << Call("delete_vertex_arrays", name),
                          Call("delete_buffers", vertex_buffer_name(name)) >>
                         \o IF IsSome(vertex_arrays[name].index_buffer)
                            THEN <<Call("delete_buffers", index_buffer_name(name))>>
                            ELSE <<>>

(* C29: through every sequence of vertex array creations, attribute         *)
(* mappings, draws and drops on one context, the vertex array the context   *)
(* has as bound is none or one not dropped; a creation binds the new array  *)
(* and its buffers; a drop deletes the array's handle once, clears it from  *)
(* the bind state, then releases its vertex buffer and index buffer once    *)
(* each.                                                                     *)
C29_BoundArrayAlive == []BoundArrayAlive /\ [][CreatedBound /\ DroppedOnce]_vars
C29_Witness ==
    /\ last_call = <<"drop", 2>>
    /\ ctx.vertex_array = 0
    /\ AliveArrays = {1}
    /\ draws = 1

(* The guards and device calls of the operation made last, in order. *)
GuardsOfLastCall ==
    IF last_call = <<>> THEN <<>> ELSE guards(last_call[1], ctx.id, calls)
IsGuard(e) == e.op \in {"ContextGuard::new", "ContextGuard::drop"}
GuardsHeld(es, i) ==
    Cardinality({j \in 1..i : es[j].op = "ContextGuard::new" /\ es[j].arg = ctx.id})
      - Cardinality({j \in 1..i : es[j].op = "ContextGuard::drop" /\ es[j].arg = ctx.id})

FrameCalled == last_call = <<>> /\ calls # <<>> /\ calls[1].op = "clear"
BorrowsOfLastCall ==
    IF FrameCalled THEN frame_borrows(calls)
    ELSE IF last_call = <<>> THEN <<>>
    ELSE borrows(last_call[1], calls)

DrawCount(vb) ==
    draw_call(DrawBuilder_new(ctx.id, VertexArray_new(1, vb), "Triangles"), ctx).calls[2].arg.count
(* (len - offset) / elements + stride *)
ImpliedCount(len, layout) ==
    TruncatingDiv(len - layout.offset, layout.elements) + layout.stride
(* The layouts set on the buffer when they are all the same one, which is   *)
(* then the one set most recently.                                          *)
LayoutsSet == {vbo.attribs[name] : name \in DOMAIN vbo.attribs}

(* C32: after every sequence of set_data_f32 and set_attrib_f32 on a vertex *)
(* buffer, the element count of a non-indexed draw is                       *)
(* (len - offset) / elements + stride for the length the buffer has now and *)
(* the layout set most recently.                                            *)
C32_CountFollowsLength ==
    \A layout \in LayoutsSet :
        /\ status = "running"
        /\ LayoutsSet = {layout}
        /\ layout.elements > 0
        /\ layout.offset <= vbo.len
        => DrawCount(vbo) = ImpliedCount(vbo.len, layout)
(* C32, for the length the buffer had when the layout was set: a            *)
(* set_attrib_f32 in range gives the draw the count implied by the length   *)
(* at that time, and an upload leaves the count as it was.                  *)
C32_CountFollowsAttrib ==
    [][ /\ SetAttribF32 /\ status' = "running" /\ last_call'[3].elements > 0
           /\ last_call'[3].offset <= vbo.len
           => DrawCount(vbo') = ImpliedCount(vbo'.len, last_call'[3])
        /\ SetDataF32 => DrawCount(vbo') = DrawCount(vbo) ]_vars
C32_Witness ==
    /\ last_call # <<>> /\ last_call[1] = "set_data_f32"
    /\ LayoutsSet = {AttribLayout(4, 0, 0)}
    /\ vbo.len = 7
    /\ DrawCount(vbo) = 3

(* set_attrib_f32 set the count and recorded the layout where the offset is *)
(* within the buffer and there is an element or more, and failed with the  *)
(* buffer as it was otherwise.                                              *)
AttribSetOrFailed ==
    LET attrib == last_call'[2]
        layout == last_call'[3]
    IN IF layout.offset <= vbo.len /\ layout.elements >= 1
       THEN /\ status' = "running"
            /\ vbo'.element_len = ImpliedCount(vbo.len, layout)
            /\ vbo'.attribs = Insert(vbo.attribs, attrib, layout)
       ELSE /\ status' = "panicked"
            /\ vbo' = vbo

(* C33: set_attrib_f32 gives an element count and records the attribute     *)
(* only when the offset is at most the length of the buffer and elements is *)
(* 1 or more; with a larger offset or with elements 0 the computation fails *)
(* and the element count and the attribute table stay as they were.         *)
C33_OutOfRangeFails == [][SetAttribF32 => AttribSetOrFailed]_vars
(* C33, in a build that checks overflow, and for elements 0 in every build. *)
C33_OutOfRangeFailsChecked ==
    [][ SetAttribF32 /\ (last_call'[4] = "overflow-checks" \/ last_call'[3].elements = 0)
        => AttribSetOrFailed ]_vars
C33_Witness ==
    /\ status = "running"
    /\ last_call # <<>> /\ last_call[1] = "set_attrib_f32"
    /\ last_call[4] = "wrapping"
    /\ last_call[3].offset > vbo.len
    /\ vbo.attribs[last_call[2]] = last_call[3]
    /\ vbo.element_len >= UsizeModulus \div 4

(* The uniforms only a point light stages, and only a directional one. *)
PointUniforms == {"light_position", "light_position_view", "light_radius"}
DirectionalUniforms == {"light_direction", "light_direction_view"}
IsStaged(p, name) == UniformLocation(name) \in DOMAIN p.uniforms
(* The pass of a light carries that light's color, strength and type and    *)
(* the fields of its type.                                                  *)
StagesOwnLight(p) ==
    LET id == p.light
        camera == Unwrap(camera_used)
    IN /\ StagedValue(p, "light_color") = UniformValue("f32x4", <<"color", id>>)
       /\ StagedValue(p, "light_strength") = UniformValue("f32", <<"strength", id>>)
       /\ IF id \in PointLights
          THEN /\ StagedValue(p, "light_type") = UniformValue("i32", 1)
               /\ StagedValue(p, "light_position") = UniformValue("f32x4", <<"position", id>>)
               /\ StagedValue(p, "light_position_view") =
                     UniformValue("f32x4", <<"position_view", id, camera>>)
               /\ StagedValue(p, "light_radius") = UniformValue("f32", <<"radius", id>>)
          ELSE /\ StagedValue(p, "light_type") = UniformValue("i32", 2)
               /\ StagedValue(p, "light_direction") = UniformValue("f32x3", <<"direction", id>>)
               /\ StagedValue(p, "light_direction_view") =
                     UniformValue("f32x3", <<"direction_view", id, camera>>)
(* The pass of a light carries no field of the other type of light. *)
StagesNoOtherLight(p) ==
    \A name \in (IF p.light \in PointLights THEN DirectionalUniforms ELSE PointUniforms) :
        ~IsStaged(p, name)
LightPasses == {k \in 1..Len(passes) : passes[k].light # 0}
OwnLightStaged == \A k \in LightPasses : StagesOwnLight(passes[k])
NoOtherLightStaged == \A k \in LightPasses : StagesNoOtherLight(passes[k])

(* C34: the uniforms staged for the draw of a light are those of the light  *)
(* drawn: its color, strength and type, the fields of its type, and no      *)
(* field of the other type left from a light drawn before.                  *)
C34_OnlyOwnLight == [][GlRender_draw => OwnLightStaged' /\ NoOtherLightStaged']_vars
(* C34, for the values of the light drawn alone. *)
C34_OwnLight == [][GlRender_draw => OwnLightStaged']_vars
C34_Witness ==
    /\ Rendered
    /\ \E k \in LightPasses :
          /\ k > 1
          /\ passes[k].light \in DirectionalLights
          /\ passes[k - 1].light \in PointLights
          /\ passes[k - 1].instance = passes[k].instance
          /\ StagedValue(passes[k], "light_position") =
                UniformValue("f32x4", <<"position", passes[k - 1].light>>)
          /\ StagedValue(passes[k], "light_radius") =
                UniformValue("f32", <<"radius", passes[k - 1].light>>)

(* The shader ids of the materials the renderer has returned: the default   *)
(* material's and those build_material issued.                              *)
ShadersReturned ==
    {default_material.shader}
      \cup {ids_issued["shader_counter"][i] : i \in 1..Len(ids_issued["shader_counter"])}
(* The material just returned names a shader id that was issued. *)
ReturnedIsIssued == \A material \in MaterialsReturned : material.shader \in ShadersReturned
(* Until the renderer is dropped every shader id returned is registered. *)
ShadersRegistered == status # "dropped" => ShadersReturned \subseteq DOMAIN programs
(* A frame over mesh instances with returned materials found a program for  *)
(* each: it fails for an unresolved anchor alone, and one that returns has  *)
(* drawn every anchored instance with the program of its material.          *)
ProgramsFound ==
    (\A id \in DOMAIN mesh_instances : mesh_instances[id].material.shader \in ShadersReturned)
    => /\ status = "panicked" => FatalCause
       /\ Rendered =>
            \A id \in Anchored :
               /\ PassesOf(id) # <<>>
               /\ \A k \in 1..Len(passes) :
                    passes[k].instance = id =>
                      StateOf(passes[k]).program =
                         Some(programs[mesh_instances[id].material.shader].id)

(* C35: every material build_material or default_material returned names a *)
(* shader id that is in the program registry at every later point until    *)
(* the renderer is dropped, so draw() never misses the program of a mesh    *)
(* instance whose material the renderer returned.                           *)
C35_ShaderRegistered ==
    /\ [](ReturnedIsIssued /\ ShadersRegistered)
    /\ [][GlRender_draw => ProgramsFound']_vars
C35_Witness ==
    /\ Rendered
    /\ \E k \in 1..Len(passes) :
          /\ mesh_instances[passes[k].instance].material.shader = 2
          /\ StateOf(passes[k]).program = Some(programs[2].id)
    /\ Cardinality(DOMAIN programs) = 3

(* The device calls of the operation made last name a vertex array of the   *)
(* context and no program of another context.                               *)
ArraysOfContext ==
    \A i \in 1..Len(calls) :
        calls[i].op = "bind_vertex_array" => calls[i].arg \in DOMAIN vertex_arrays
ProgramsOfContext ==
    /\ \A i \in 1..Len(calls) :
          calls[i].op = "use_program" => calls[i].arg \in {None, Some(ClientProgram.id)}
    /\ IsSome(builder) /\ IsSome(Unwrap(builder).program) =>
          Unwrap(Unwrap(builder).program).context = Unwrap(builder).context
(* program() with a program of another context fails and sets nothing. *)
ForeignProgramRejected ==
    SetProgram /\ last_call'[2].context # Unwrap(builder).context =>
        status' = "panicked" /\ builder' = builder /\ calls' = <<>>

(* C36: a draw builder issues device calls for resources of its own context *)
(* only: program() fails fatally on a program of another context, and the   *)
(* vertex array it maps attributes on and draws is one of its context.      *)
C36_OwnContext ==
    /\ [](ProgramsOfContext /\ ArraysOfContext)
    /\ [][ForeignProgramRejected]_vars
(* C36, for the program alone. *)
C36_OwnProgram ==
    /\ []ProgramsOfContext
    /\ [][ForeignProgramRejected]_vars
C36_Witness ==
    /\ status = "running"
    /\ last_call = <<"draw">>
    /\ Unwrap(builder).vertex_array = ForeignVertexArray
    /\ Unwrap(builder).context = ctx.id
    /\ ctx.vertex_array = ForeignArrayName
    /\ \E i \in 1..Len(calls) :
          calls[i].op = "bind_vertex_array" /\ calls[i].arg = ForeignArrayName

-----------------------------------------------------------------------------
(* debug_draw.rs: the DebugDraw singleton and its command buffer.           *)
(* The engine makes and drops DebugDraw objects, queues commands through    *)
(* the free functions and flushes the queue once per frame.                 *)
notProcess ==
    <<ctx, vertex_arrays, builder, chain, draws, last_call, registryVars, passes,
      camera_used, ids_issued, result, bufferVars, buffer_binding>>

Line(start, end) == [command |-> "Line", start |-> start, end |-> end]
Box(center, widths) == [command |-> "Box", center |-> center, widths |-> widths]
CommandInputs == {Line("p", "q"), Box("c", "w")}
ShaderInputs == {Some("shaders/debug_draw.glsl"), None}

(* A DebugDrawInner on the heap: freed boxes stay in `heap`, marked, so an *)
(* address is never handed out twice and a stale pointer stays visible.    *)
DebugDrawInner == [alive |-> TRUE, command_buffer |-> <<>>]
Box_new == Cardinality(DOMAIN heap) + 1
Box_drop(h, address) == [h EXCEPT ![address].alive = FALSE]
IsNull(pointer) == pointer = 0

(* DebugDraw::new. The assertion comes first; then the box is made and     *)
(* `instance` set; then the struct literal is evaluated, where the unwrap  *)
(* of get_shader's result panics when the shader is missing: the unwinding *)
(* drops the local `inner`, and no DebugDraw was made whose drop would     *)
(* reset `instance`.                                                       *)
DebugDraw_new ==
    /\ Running
    /\ Cardinality(DOMAIN heap) < MaxDebugDraws
    /\ \E shader \in ShaderInputs :
         IF ~IsNull(debug_instance)
         THEN /\ status' = "panicked"
              /\ UNCHANGED debugVars
         ELSE LET inner == Box_new
                  allocated == Insert(heap, inner, DebugDrawInner)
              IN /\ debug_instance' = inner
                 /\ IF IsSome(shader)
                    THEN /\ heap' = allocated
                         /\ debug_draws' = debug_draws \cup {inner}
                         /\ status' = "running"
                    ELSE /\ heap' = Box_drop(allocated, inner)
                         /\ debug_draws' = debug_draws
                         /\ status' = "panicked"
                 /\ UNCHANGED <<queued, dispatched>>
    /\ calls' = <<>>
    /\ UNCHANGED <<notProcess, loaderVars>>

(* Drop for DebugDraw, then the drop of its fields: `inner` is freed. *)
DebugDraw_drop ==
    /\ Running
    /\ \E self \in debug_draws :
         /\ debug_instance' = 0
         /\ debug_draws' = debug_draws \ {self}
         /\ heap' = Box_drop(heap, self)
    /\ calls' = <<>>
    /\ UNCHANGED <<status, queued, dispatched, notProcess, loaderVars>>

(* draw_command, reached through draw_line, draw_box_min_max and           *)
(* draw_box_center_widths. With no instance a debug build fails the        *)
(* debug_assert. A release build has no assertion and writes through the   *)
(* null pointer, which is undefined: the process faults, or it runs on     *)
(* with the command in no buffer.                                          *)
(* An entry of the histories `queued` and `dispatched`. *)
Queued(command, address) == [command |-> command, instance |-> address]

BuildInputs == {"debug", "release"}
NullWriteOutcomes(build) ==
    IF build = "debug" THEN {"panicked"} ELSE {"panicked", "running"}

draw_command ==
    /\ Running
    /\ Len(queued) < MaxCommands
    /\ \E command \in CommandInputs, build \in BuildInputs :
         IF IsNull(debug_instance)
         THEN /\ \E outcome \in NullWriteOutcomes(build) : status' = outcome
              /\ UNCHANGED <<heap, queued>>
         ELSE /\ heap' = [heap EXCEPT ![debug_instance].command_buffer =
                              Append(@, command)]
              /\ queued' = Append(queued, Queued(command, debug_instance))
              /\ status' = "running"
    /\ calls' = <<>>
    /\ UNCHANGED <<debug_instance, debug_draws, dispatched, notProcess, loaderVars>>

(* The renderer call flush_commands makes for one command. *)
dispatch(command) ==
    IF command.command = "Line"
    THEN [op |-> "draw_line", arg |-> <<command.start, command.end>>]
    ELSE [op |-> "draw_wireframe", arg |-> <<command.center, command.widths>>]

(* DebugDraw::flush_commands: one renderer call per command of the buffer, *)
(* front to back, then the buffer is cleared.                              *)
flush_dispatches(command_buffer) ==
    [i \in 1..Len(command_buffer) |-> dispatch(command_buffer[i])]

flush_clear_kept(command_buffer) == command_buffer

flush_clear(command_buffer) == <<>>

flush_commands ==
    /\ Running
    /\ \E self \in debug_draws :
         LET command_buffer == heap[self].command_buffer
         IN /\ calls' = flush_dispatches(command_buffer)
            /\ dispatched' = dispatched \o
                  [i \in 1..Len(command_buffer) |-> Queued(command_buffer[i], self)]
            /\ heap' = [heap EXCEPT ![self].command_buffer = flush_clear(command_buffer)]
    /\ UNCHANGED <<status, debug_instance, debug_draws, queued, notProcess, loaderVars>>

NextDebugDraw ==
    \/ DebugDraw_new
    \/ DebugDraw_drop
    \/ draw_command
    \/ flush_commands

SpecDebugDraw == Init /\ [][NextDebugDraw]_vars

-----------------------------------------------------------------------------
(* The static pointer against the DebugDraw objects alive. *)
AtMostOne == Cardinality(debug_draws) <= 1

InstanceIsAlive ==
    /\ ~IsNull(debug_instance) <=> debug_draws # {}
    /\ ~IsNull(debug_instance) =>
          /\ debug_draws = {debug_instance}
          /\ heap[debug_instance].alive

SecondFails ==
    DebugDraw_new /\ debug_draws # {} => status' = "panicked" /\ UNCHANGED debugVars

DropFreesTheSlot ==
    DebugDraw_drop => IsNull(debug_instance') /\ debug_draws' = {}

FirstSucceeds ==
    DebugDraw_new /\ IsNull(debug_instance) /\ status' = "running" =>
        debug_draws' = {debug_instance'}

(* C37: at most one DebugDraw is alive at a time; a second construction    *)
(* while one is alive fails fatally and changes nothing; the instance      *)
(* pointer is non-null exactly while a DebugDraw is alive and then points  *)
(* to that object's live command buffer, in every state, the one after a   *)
(* construction that failed part-way included; a drop leaves the pointer   *)
(* null, so that the next construction passes the assertion.               *)
C37_OneInstance ==
    /\ [](AtMostOne /\ InstanceIsAlive)
    /\ [][SecondFails /\ DropFreesTheSlot /\ FirstSucceeds]_vars

(* C37, as far as the code keeps it: the same, the pointer being judged    *)
(* only while the process runs, that is, not after a construction whose    *)
(* shader lookup failed once `instance` had been set.                      *)
C37_OneInstanceRunning ==
    /\ [](AtMostOne /\ (Running => InstanceIsAlive))
    /\ [][SecondFails /\ DropFreesTheSlot /\ FirstSucceeds]_vars

(* A DebugDraw is alive that was made after an earlier one was dropped. *)
C37_Witness ==
    /\ Running
    /\ debug_draws # {}
    /\ \E address \in DOMAIN heap : ~heap[address].alive

-----------------------------------------------------------------------------
(* The commands queued at, and dispatched from, the DebugDraw at an address. *)
At(history, address) ==
    LET at == SelectSeq(history, LAMBDA e : e.instance = address)
    IN [i \in 1..Len(at) |-> at[i].command]

IsPrefix(s, t) == Len(s) <= Len(t) /\ s = SubSeq(t, 1, Len(s))

(* The commands queued at an address that no flush has dispatched yet. *)
Pending(address) ==
    SubSeq(At(queued, address), Len(At(dispatched, address)) + 1,
           Len(At(queued, address)))

DispatchedInOrder ==
    \A address \in DOMAIN heap : IsPrefix(At(dispatched, address), At(queued, address))

FlushDispatchesPending ==
    flush_commands =>
        \E self \in debug_draws :
            /\ calls' = [i \in 1..Len(Pending(self)) |-> dispatch(Pending(self)[i])]
            /\ At(dispatched', self) = At(queued, self)
            /\ heap'[self].command_buffer = <<>>

OnlyFlushDispatches ==
    ~flush_commands => dispatched' = dispatched

(* C38: what the flushes of a DebugDraw have dispatched is, in every state, *)
(* a prefix of what was queued at it: each command at most once and in      *)
(* queue order. A flush issues one renderer call for each command queued    *)
(* since the previous flush, in queue order, after which nothing is pending *)
(* and the buffer is empty; so a command queued after a flush is dispatched *)
(* by the next flush and by no other. Nothing but a flush dispatches.       *)
C38_FlushInOrder ==
    /\ []DispatchedInOrder
    /\ [][FlushDispatchesPending /\ OnlyFlushDispatches]_vars

(* A flush has just dispatched commands that were queued after an earlier   *)
(* flush had dispatched others.                                             *)
C38_Witness ==
    \E self \in debug_draws :
        /\ calls # <<>>
        /\ calls[1].op \in {"draw_line", "draw_wireframe"}
        /\ Len(calls) < Len(At(dispatched, self))
        /\ At(dispatched, self) = At(queued, self)
        /\ heap[self].command_buffer = <<>>

-----------------------------------------------------------------------------
(* loader.rs: main opens the game as a dynamic library, then loops: at     *)
(* most every five seconds it copies and opens the library again and       *)
(* switches over to it, and every turn it runs one frame of the engine.    *)
notLoader ==
    <<ctx, vertex_arrays, builder, chain, draws, last_call, registryVars, passes,
      camera_used, ids_issued, result, bufferVars, buffer_binding, debugVars>>

EngineSymbols ==
    {"engine_init", "engine_update_and_render", "engine_reload", "engine_close"}

(* The library gunship_lib_<counter>.dll, with the symbols it exports. *)
Library(counter, symbols) == [path |-> counter, symbols |-> symbols]

(* What DynamicLibrary::open can answer for the copy made by update_dll:   *)
(* an error (no file, or not a library), the game library, or a library    *)
(* built without one of the entry points.                                  *)
OpenInputs(counter) ==
    {[ok |-> FALSE, library |-> Library(counter, {})],
     [ok |-> TRUE, library |-> Library(counter, EngineSymbols)],
     [ok |-> TRUE, library |-> Library(counter, EngineSymbols \ {"engine_close"})]}

(* main's locals, the libraries open in the process and the calls made. *)
Locals ==
    [ok |-> TRUE, libraries |-> libraries, lib |-> lib, engine |-> engine,
     engine_update_and_render |-> engine_update_and_render,
     engine_close |-> engine_close, calls |-> <<>>]

(* A call through an entry point: the library the function is of and the   *)
(* libraries open when it is made.                                         *)
EngineCall(m, name, library) ==
    [op |-> name, arg |-> [library |-> library, loaded |-> m.libraries]]

call(m, name, library) == [m EXCEPT !.calls = Append(@, EngineCall(m, name, library))]

(* A panic in main: the unwinding drops every library main holds. *)
unwind(m) == [m EXCEPT !.ok = FALSE, !.libraries = {}, !.lib = None]

has(library, name) == name \in library.symbols

(* The engine state: the library whose engine_init or engine_reload made   *)
(* it, and the frames it has run.                                          *)
engine_init(library) == [library |-> library, frames |-> 0]
engine_reload(e, library) == [e EXCEPT !.library = library]
update(e) == [e EXCEPT !.frames = @ + 1]

(* `_lib = Some(lib)`: the new library is kept and the old value dropped. *)
keep_unreleased(m, new) == [m EXCEPT !.lib = Some(new)]

keep(m, new) ==
    [m EXCEPT !.lib = Some(new),
              !.libraries = IF IsSome(m.lib) THEN @ \ {Unwrap(m.lib)} ELSE @]

(* The block that opens the game first (loader.rs 44-67). *)
open_first(m, opened) ==
    IF ~opened.ok \/ \E name \in EngineSymbols \ {"engine_reload"} :
                        ~has(opened.library, name)
    THEN unwind(m)
    ELSE LET new == opened.library.path
             loaded == [m EXCEPT !.libraries = @ \cup {new}]
             called == call(loaded, "engine_init", new)
         IN [called EXCEPT !.lib = Some(new),
                           !.engine = Some(engine_init(new)),
                           !.engine_update_and_render = Some(new),
                           !.engine_close = Some(new)]

(* The reload block (loader.rs 81-103), statement by statement. *)
reload(m, opened) ==
    IF ~opened.ok
    THEN m
    ELSE LET new == opened.library
             loaded == [m EXCEPT !.libraries = @ \cup {new.path}]
         IN IF ~has(new, "engine_reload")
            THEN unwind(loaded)
            ELSE IF ~has(new, "engine_update_and_render")
            THEN unwind(loaded)
            ELSE LET updating ==
                        [loaded EXCEPT !.engine_update_and_render = Some(new.path)]
                 IN IF ~has(new, "engine_close")
                    THEN unwind(updating)
                    ELSE LET closing == [updating EXCEPT !.engine_close = Some(new.path)]
                             called == call(closing, "engine_reload", new.path)
                             reloaded ==
                                [called EXCEPT !.engine =
                                    Some(engine_reload(Unwrap(@), new.path))]
                         IN keep(reloaded, new.path)

(* The frame of one turn of the loop (loader.rs 106-112): the update, then *)
(* the question whether to close; on a close main returns and its          *)
(* libraries are dropped.                                                  *)
frame(m, close) ==
    LET updating == call(m, "engine_update_and_render", Unwrap(m.engine_update_and_render))
        updated == [updating EXCEPT !.engine = Some(update(Unwrap(@)))]
        asked == call(updated, "engine_close", Unwrap(updated.engine_close))
    IN IF close
       THEN [asked EXCEPT !.libraries = {}, !.lib = None]
       ELSE asked

Store(m, ended) ==
    /\ libraries' = m.libraries
    /\ lib' = m.lib
    /\ engine' = m.engine
    /\ engine_update_and_render' = m.engine_update_and_render
    /\ engine_close' = m.engine_close
    /\ calls' = m.calls
    /\ status' = IF ~m.ok THEN "panicked" ELSE IF ended THEN "exited" ELSE "running"

main_open ==
    /\ Running
    /\ lib_counter = 0
    /\ \E opened \in OpenInputs(lib_counter) : Store(open_first(Locals, opened), FALSE)
    /\ lib_counter' = lib_counter + 1
    /\ UNCHANGED notLoader

(* A turn of the loop in which the five seconds have passed. *)
main_loop_reload ==
    /\ Running
    /\ IsSome(lib)
    /\ lib_counter <= MaxReloads
    /\ Unwrap(engine).frames < MaxFrames
    /\ \E opened \in OpenInputs(lib_counter), close \in BOOLEAN :
         LET m == reload(Locals, opened)
         IN IF m.ok THEN Store(frame(m, close), close) ELSE Store(m, FALSE)
    /\ lib_counter' = lib_counter + 1
    /\ UNCHANGED notLoader

(* A turn of the loop in which they have not. *)
main_loop ==
    /\ Running
    /\ IsSome(lib)
    /\ Unwrap(engine).frames < MaxFrames
    /\ \E close \in BOOLEAN : Store(frame(Locals, close), close)
    /\ UNCHANGED <<lib_counter, notLoader>>

NextLoader ==
    \/ main_open
    \/ main_loop_reload
    \/ main_loop

SpecLoader == Init /\ [][NextLoader]_vars

-----------------------------------------------------------------------------
(* The entry points main calls through and the libraries open. *)
InLoop == Running /\ IsSome(lib)

PointersLoaded ==
    InLoop =>
        /\ engine_update_and_render = lib
        /\ engine_close = lib
        /\ libraries = {Unwrap(lib)}

IsEngineCall(e) ==
    e.op \in {"engine_init", "engine_update_and_render", "engine_reload", "engine_close"}

CallsLoaded ==
    \A i \in 1..Len(calls) :
        IsEngineCall(calls[i]) => calls[i].arg.library \in calls[i].arg.loaded

Reloaded == calls' # <<>> /\ calls'[1].op = "engine_reload"

ReloadSwitches ==
    main_loop_reload /\ Reloaded =>
        /\ calls'[1].arg = [library |-> lib_counter, loaded |-> {Unwrap(lib), lib_counter}]
        /\ \A i \in 2..Len(calls') :
              calls'[i].arg = [library |-> lib_counter, loaded |-> {lib_counter}]
        /\ Unwrap(engine') = update(engine_reload(Unwrap(engine), lib_counter))
        /\ Unwrap(lib) \notin libraries'
        /\ status' = "running" =>
              /\ lib' = Some(lib_counter)
              /\ engine_update_and_render' = Some(lib_counter)
              /\ engine_close' = Some(lib_counter)

OpenFailureKeeps ==
    main_loop_reload /\ ~Reloaded /\ status' # "panicked" =>
        /\ \A i \in 1..Len(calls') :
              calls'[i].arg = [library |-> Unwrap(lib), loaded |-> libraries]
        /\ Len(calls') = 2
        /\ Unwrap(engine') = update(Unwrap(engine))
        /\ status' = "running" =>
              UNCHANGED <<lib, libraries, engine_update_and_render, engine_close>>

(* C39: while the loop runs, the update and close pointers are of the one  *)
(* library that is open, and every call through an entry point is of a     *)
(* library open when it is made. A successful reload calls the new         *)
(* library's engine_reload on the engine state with the old and the new    *)
(* library open, then the old one is released, and the frame that follows  *)
(* and both pointers are of the new library. When the open fails, the      *)
(* library, both pointers and the engine state are as they were and the    *)
(* frame runs through the old library.                                     *)
C39_PointersLoaded ==
    /\ [](PointersLoaded /\ CallsLoaded)
    /\ [][ReloadSwitches /\ OpenFailureKeeps]_vars

(* The loop has just reloaded from the third copy, the open of the second  *)
(* having failed: engine_reload ran with the first library still open.     *)
C39_Witness ==
    /\ InLoop
    /\ calls # <<>>
    /\ calls[1].op = "engine_reload"
    /\ calls[1].arg.loaded = {0, 2}
    /\ lib = Some(2)

====
